---------------------------- MODULE Spec2Model ----------------------------
(***************************************************************************)
(* A model of the TinyMQ client: the frame codec (tinymq/packet.py), the   *)
(* connection engine, its reader loop and the publish call                 *)
(* (tinymq/client.py), the store (tinymq/db.py), the data acquisition      *)
(* service (tinymq/das.py) and the publish callbacks of the front ends.    *)
(*                                                                         *)
(* The module holds several specifications over one set of variables; a    *)
(* specification leaves the variables of the other parts at their idle     *)
(* value:                                                                  *)
(*   SpecCodec    Packet.serialize / Packet.deserialize on one packet      *)
(*   SpecReader   one reader running Client._read_loop over a byte stream  *)
(*   SpecPublish  Client.publish on one (topic, message)                   *)
(*   Spec         the connection engine: connect, disconnect, send, the    *)
(*                reader threads and the broker as environment             *)
(*   SpecSend     two threads sending on one socket, sendall in pieces     *)
(*   SpecRequests two threads calling the requests that wait for a reply   *)
(*   SpecSubs     subscribe, unsubscribe and the dispatch of inbound PUB   *)
(*   SpecAdmin    request_admin_status and the dispatch of ADMIN_REQ_ACK   *)
(*   SpecSensor   sensor commands from the broker on the owner's side      *)
(*   SpecDisconnect  disconnect() from any thread, scheduled fairly        *)
(*   SpecStore    the table of subscriptions of the store (tinymq/db.py)   *)
(*   SpecLines    the serial reader on complete lines: _process_data and   *)
(*                _store_sensor_reading                                    *)
(*   SpecOrch     the topics of the store, _setup_topic_publishing of the  *)
(*                two front ends and the publish callbacks on sensor       *)
(*                events                                                   *)
(*   SpecDas      start, stop, the USB watcher and the serial reader of    *)
(*                the acquisition service; SpecDasFair schedules its       *)
(*                threads fairly                                           *)
(*   SpecResign   resign_admin_status and the dispatch of ADMIN_RESIGN_ACK;*)
(*                SpecResignFair lets the reader dispatch what it received *)
(*   SpecCorrelated  the requests that send before they register           *)
(*   SpecTable    the first part of _handle_packet, statement by statement *)
(*   SpecReaderCalls  on_admin_result of the front end, run on the reader  *)
(*   SpecOwnerCallback  the front end's on_sensor_data under SpecOrch's    *)
(*                operations                                               *)
(*   SpecFanout   the loop over the callbacks of the acquisition service,  *)
(*                one callback at a time                                   *)
(***************************************************************************)
EXTENDS Integers, Sequences, FiniteSets, TLC

VARIABLES
    \* ---- SpecCodec
    c_pc,           \* "idle" | "new" | "serialized" | "deserialized"
    c_packet,       \* the Packet object given to serialize
    c_data,         \* the bytes serialize returned
    c_avail,        \* how many of them are handed to deserialize
    c_result        \* what deserialize returned

codecVars == <<c_pc, c_packet, c_data, c_avail, c_result>>

VARIABLES
    \* ---- the Client object (tinymq/client.py, Client.__init__)
    socket,         \* self.socket: 0 for None, else the id of a socket object
    connected,      \* self.connected
    running,        \* self.running
    read_thread,    \* self.read_thread: a thread id, NoThread for None
    recv_buffer,    \* self._recv_buffer: a sequence of bytes
    temp_handlers,  \* self._temp_handlers: its items <<packet type, thread, call>>,
                    \* the handler being a closure of that call of that thread
    requesting_admin_topics,  \* self._requesting_admin_topics
    topic_handlers, \* self.topic_handlers: its items <<topic, handler>>
    admin_request_callback,   \* self._admin_request_callback is set
    \* ---- the threads
    th,             \* per thread: program counter, return stack and locals
    \* ---- the sockets and the broker behind them
    next_sock,      \* how many socket objects connect() has created
    sock_open,      \* the socket objects whose descriptor is open
    sock_eof,       \* the sockets whose peer is gone: reads end, writes fail
    sock_in,        \* per socket: the bytes the broker sent, not yet read
    wire,           \* per socket: the bytes written, each tagged with its frame
    \* ---- history
    handled,        \* the packets given to _handle_packet, in order
    ack_sock,       \* the socket whose CONNACK was dispatched last (0: none)
    lost,           \* a loss of connection completed and no connect() began since
    sent,           \* the frames the broker has sent, in order
    notified        \* the calls of the connection-state observer, counted:
                    \* up with True, down with False; made: the CONNACKs
                    \* dispatched while self.connected was False

clientVars == <<socket, connected, running, read_thread, recv_buffer,
                temp_handlers, requesting_admin_topics, topic_handlers,
                admin_request_callback>>
envVars == <<next_sock, sock_open, sock_eof, sock_in, wire>>
histVars == <<handled, ack_sock, lost, sent, notified>>
engineVars == <<clientVars, th, envVars, histVars>>

VARIABLES
    \* ---- SpecPublish
    p_pc,           \* "idle" | "call" | "done"
    p_topic,        \* publish's topic argument
    p_message,      \* publish's message argument
    p_send_ok,      \* whether sendall on the socket succeeds
    p_result,       \* what publish returned
    p_frames        \* the packets written to the socket

publishVars == <<p_pc, p_topic, p_message, p_send_ok, p_result, p_frames>>

VARIABLES
    \* ---- the calls made on the client and by the client
    api_log,        \* the calls of the client's methods that returned, in order
    dispatch_log    \* per frame dispatched: the frame and the calls it led to

VARIABLES
    \* ---- the data acquisition service and what the owner has marked
    das_running,    \* das.running and das.serial_conn: the serial port is open
    serial_out,     \* the command lines written to the serial port, in order
    admin_notify_callback,  \* self._admin_notify_callback is registered
    activable       \* the sensors marked activable by mark_sensor_as_activable

dasVars == <<das_running, serial_out, admin_notify_callback, activable>>

VARIABLES
    \* ---- the store (tinymq/db.py)
    subscriptions   \* the rows of the table subscriptions, in order of id

storeVars == <<subscriptions>>

VARIABLES
    \* ---- the threads of the data acquisition service (tinymq/das.py)
    serial_conn,    \* das.serial_conn: "none", "open", "closed" (the object
                    \* is there, closed) or "dead" (open on a device that
                    \* was unplugged since)
    retry_running,  \* das.retry_running
    ports,          \* the devices that serial.tools.list_ports lists now
    das_th          \* per thread of the service: where it is, and its locals

acqVars == <<serial_conn, retry_running, ports, das_th>>

VARIABLES
    \* ---- the readings that the acquisition service takes from the lines
    readings,       \* the rows of the table readings, in order
    on_data_received_callbacks,     \* das.on_data_received_callbacks
    total_readings_received,        \* das.total_readings_received
    reader_ended,   \* _read_serial_data has ended on an exception
    line_log        \* per line read: the line and what came of it

lineVars == <<readings, on_data_received_callbacks, total_readings_received,
              reader_ended, line_log>>

VARIABLES
    \* ---- the front end (gui.py, cli.py) and the topics of the store
    front,          \* which front end runs: "gui" or "cli"
    topics,         \* the rows of the table topics, in order of id
    topic_sensors,  \* the table topic_sensors, as <<topic name, sensor name>>
    orch_ran,       \* the last step ran _setup_topic_publishing to its end
    last_op,        \* the operation of the front end that the last step was
    event_log       \* what each callback did with the sensor event that the
                    \* last step delivered

orchVars == <<front, topics, topic_sensors, orch_ran, last_op, event_log>>

VARIABLES
    \* ---- resigning as administrator of a topic (tinymq/client.py)
    admin_resign_callback,  \* self._admin_resign_callback: 0 for None, else
                            \* the number of the call that stored it
    resign_log,     \* per call of resign_admin_status: what it was given,
                    \* what it returned and the calls of its callback
    resign_in,      \* the ADMIN_RESIGN_ACK frames received, in order
    resign_handled  \* how many of them the reader has dispatched

resignVars == <<admin_resign_callback, resign_log, resign_in, resign_handled>>

VARIABLES
    \* ---- a dispatch in progress, step by step
    handling,       \* where the reader is in the first part of
                    \* _handle_packet, what its check found and the handler
                    \* it has fetched
    fanout,         \* the loop of _store_sensor_reading over the callbacks:
                    \* its index, the callbacks registered when it began and
                    \* those it has called
    admin_result_callback   \* self._admin_result_callback is the front
                            \* end's on_admin_result

stepVars == <<handling, fanout, admin_result_callback>>

\* the application around the engine: the store, the acquisition threads,
\* the readings and the front end
appVars == <<storeVars, acqVars, lineVars, orchVars, resignVars, stepVars>>

\* what the actions on the store leave alone
nonStoreVars == <<codecVars, engineVars, publishVars, api_log, dispatch_log,
                  dasVars, acqVars, lineVars, orchVars, resignVars, stepVars>>

\* what the threads of the acquisition service leave alone
nonAcqVars == <<codecVars, engineVars, publishVars, api_log, dispatch_log,
                serial_out, admin_notify_callback, activable, storeVars,
                lineVars, orchVars, resignVars, stepVars>>

\* what the processing of the serial lines leaves alone
nonLineVars == <<codecVars, engineVars, publishVars, api_log, dispatch_log,
                 dasVars, storeVars, acqVars, orchVars, resignVars,
                 stepVars>>

\* what the front end leaves alone: all but client.connected, the callbacks
\* of the acquisition service and its own variables
nonOrchVars == <<codecVars, publishVars, api_log, dispatch_log, dasVars,
                 storeVars, acqVars, readings, total_readings_received,
                 reader_ended, line_log, socket, running, read_thread,
                 recv_buffer, temp_handlers, requesting_admin_topics,
                 topic_handlers, admin_request_callback, th, envVars,
                 histVars, resignVars, stepVars>>

surfaceVars == <<api_log, dispatch_log, dasVars, appVars>>

\* what the actions of the engine leave alone
nonEngineVars == <<codecVars, publishVars, surfaceVars>>

\* what the dispatch of an ADMIN_RESIGN_ACK leaves alone
nonResignVars == <<codecVars, engineVars, publishVars, api_log, dispatch_log,
                   dasVars, storeVars, acqVars, lineVars, orchVars,
                   stepVars>>

\* what the actions on the logs leave alone, the engine apart
nonSurfaceVars == <<codecVars, publishVars, dasVars, appVars>>

vars == <<codecVars, engineVars, publishVars, surfaceVars>>

(***************************************************************************)
(* Bounds of the model                                                     *)
(***************************************************************************)
\* payloads of every length up to MaxSmallLen over SampleBytes are enumerated
MaxSmallLen == 2
\* one payload longer than 255 bytes, so that the high length byte is used
BigLen == 258
\* socket objects (connect() calls) and so reader threads
MaxSockets == 2
\* frames the broker sends to the reader of SpecReader
MaxFrames == 3
\* frames the broker sends to the engine of Spec
MaxAnswers == 2
\* frames a thread begins to send, the CONN of connect() among them
MaxSends == 2

(***************************************************************************)
(* tinymq/packet.py                                                        *)
(***************************************************************************)
HEADER_SIZE == 4

CONN == 1
CONNACK == 2
PUB == 3
PUBACK == 4
ADMIN_REQ_ACK == 12
MY_ADMIN_TOPICS_REQ == 34
MY_ADMIN_TOPICS_RESP == 35
ADMIN_LIST_REQ == 16
ADMIN_LIST_RESP == 17
TOPIC_SENSORS_REQ == 38
TOPIC_SENSORS_RESP == 39

\* the values of the PacketType enumeration: 0x01..0x14, 0x20..0x27, 0x35
PacketType == (1..20) \cup (32..39) \cup {53}

\* Packet.__init__: the three fields of a packet object
Packet(packet_type, flags, payload) ==
    [packet_type |-> packet_type, flags |-> flags, payload |-> payload]

\* the None that deserialize returns in place of a packet
None == [packet_type |-> -1, flags |-> -1, payload |-> <<>>]

\* struct.pack('!BBH', type, flags, len(payload)) + payload: the length is
\* written as two bytes, most significant first
Serialize(packet) ==
    << packet.packet_type,
       packet.flags,
       Len(packet.payload) \div 256,
       Len(packet.payload) % 256 >> \o packet.payload

\* mutant of Deserialize: the length read least significant byte first
DeserializeLittleEndian(data) ==
    IF Len(data) < HEADER_SIZE
    THEN [packet |-> None, consumed |-> 0]
    ELSE LET payload_length == data[3] + data[4] * 256
         IN  IF Len(data) < HEADER_SIZE + payload_length
             THEN [packet |-> None, consumed |-> 0]
             ELSE [packet |-> Packet(data[1], data[2],
                                SubSeq(data, HEADER_SIZE + 1,
                                       HEADER_SIZE + payload_length)),
                   consumed |-> HEADER_SIZE + payload_length]

\* Packet.deserialize: (None, 0) when the header or the payload is not yet
\* complete; (None, 4 + payload_length) when the type byte is no member of
\* PacketType (the ValueError branch); (packet, 4 + payload_length) otherwise
Deserialize(data) ==
    IF Len(data) < HEADER_SIZE
    THEN [packet |-> None, consumed |-> 0]
    ELSE LET packet_type == data[1]
             flags == data[2]
             payload_length == data[3] * 256 + data[4]
         IN  IF Len(data) < HEADER_SIZE + payload_length
             THEN [packet |-> None, consumed |-> 0]
             ELSE IF packet_type \in PacketType
                  THEN [packet |-> Packet(packet_type, flags,
                                     SubSeq(data, HEADER_SIZE + 1,
                                            HEADER_SIZE + payload_length)),
                        consumed |-> HEADER_SIZE + payload_length]
                  ELSE [packet |-> None,
                        consumed |-> HEADER_SIZE + payload_length]

(***************************************************************************)
(* SpecCodec: serialize one packet, then deserialize a prefix of its bytes *)
(***************************************************************************)
SampleBytes == {0, 65, 255}
SampleFlags == {0, 1, 255}

RECURSIVE SeqsUpTo(_, _)
SeqsUpTo(S, n) ==
    IF n = 0 THEN {<<>>}
    ELSE LET shorter == SeqsUpTo(S, n - 1)
         IN  shorter \cup {Append(s, b) : s \in shorter, b \in S}

SamplePayloads ==
    SeqsUpTo(SampleBytes, MaxSmallLen) \cup {[i \in 1..BigLen |-> 65]}

NoResult == [packet |-> None, consumed |-> -1]

PublishIdle ==
    /\ p_pc = "idle" /\ p_topic = "" /\ p_message = "" /\ p_send_ok = FALSE
    /\ p_result = FALSE /\ p_frames = <<>>

\* no call logged, the data acquisition service not started
\* a store just created: _ensure_tables on a new file
StoreIdle == subscriptions = <<>>

\* the threads of the acquisition service
Owner == "owner"
Watchers == {"watcher1", "watcher2"}
SerialReaders == {"serial1", "serial2"}
DasThreads == {Owner} \cup Watchers \cup SerialReaders

\* a thread of the service at a place: from is the caller of _connect,
\* last_ports and current_ports are the locals of _usb_monitor, erred tells
\* that the thread went through the serial error handler
DasAt(pc) == [pc |-> pc, from |-> "", last_ports |-> {}, current_ports |-> {},
              erred |-> FALSE]

\* a service just constructed: not running, no port, no thread
AcqIdle ==
    /\ serial_conn = "none" /\ retry_running = FALSE /\ ports = {}
    /\ das_th = [t \in DasThreads |->
                    IF t = Owner THEN DasAt("idle") ELSE DasAt("unborn")]

\* no reading taken, no callback registered
LinesIdle ==
    /\ readings = <<>> /\ on_data_received_callbacks = <<>>
    /\ total_readings_received = 0 /\ reader_ended = FALSE
    /\ line_log = <<>>

\* no topic in the store, no operation done
OrchIdle ==
    /\ front = "gui" /\ topics = <<>> /\ topic_sensors = {}
    /\ orch_ran = FALSE /\ last_op = "" /\ event_log = <<>>

\* no resignation asked for, no answer received
ResignIdle ==
    /\ admin_resign_callback = 0 /\ resign_log = <<>>
    /\ resign_in = <<>> /\ resign_handled = 0

\* the reader at no place inside _handle_packet
NotHandling == [pc |-> "none", type |-> 0, seen |-> {}, handler |-> {}]

\* no loop over the callbacks in progress
NoFanout ==
    [active |-> FALSE, event |-> 0, index |-> 0, registered |-> {},
     called |-> <<>>]

\* no dispatch in progress, no handler for ADMIN_RESULT registered
StepIdle ==
    /\ handling = NotHandling /\ fanout = NoFanout
    /\ admin_result_callback = FALSE

AppIdle ==
    StoreIdle /\ AcqIdle /\ LinesIdle /\ OrchIdle /\ ResignIdle /\ StepIdle

SurfaceIdle ==
    /\ api_log = <<>> /\ dispatch_log = <<>>
    /\ das_running = FALSE /\ serial_out = <<>>
    /\ admin_notify_callback = FALSE /\ activable = {}
    /\ AppIdle

\* the observer's calls up to a state in which the engine is connected
\* (one CONNACK, told once) or has not been connected yet
NotifiedAt(is_connected) ==
    IF is_connected THEN [up |-> 1, down |-> 0, made |-> 1]
    ELSE [up |-> 0, down |-> 0, made |-> 0]

\* self._notify_connection_state_change(False)
NotifyDown(n) == [n EXCEPT !.down = @ + 1]

\* self._notify_connection_state_change(True), on a CONNACK dispatched while
\* self.connected was was_connected
NotifyUp(n, was_connected) ==
    [n EXCEPT !.up = @ + 1, !.made = IF was_connected THEN @ ELSE @ + 1]

\* the engine before anything of it is used
EngineIdle ==
    /\ socket = 0 /\ connected = FALSE /\ running = FALSE
    /\ read_thread = <<"none", 0>>
    /\ recv_buffer = <<>> /\ temp_handlers = {}
    /\ requesting_admin_topics = FALSE
    /\ topic_handlers = {} /\ admin_request_callback = FALSE
    /\ th = <<>>
    /\ next_sock = 0 /\ sock_open = {} /\ sock_eof = {}
    /\ sock_in = <<>> /\ wire = <<>>
    /\ handled = <<>> /\ ack_sock = 0 /\ lost = FALSE /\ notified = NotifiedAt(connected) /\ sent = <<>>

CodecIdle ==
    /\ c_pc = "idle"
    /\ c_packet = None
    /\ c_data = <<>>
    /\ c_avail = 0
    /\ c_result = NoResult

CodecInit ==
    /\ EngineIdle /\ PublishIdle /\ SurfaceIdle
    /\ c_pc = "new"
    /\ c_packet \in {Packet(t, f, p) :
                        t \in PacketType, f \in SampleFlags, p \in SamplePayloads}
    /\ c_data = <<>>
    /\ c_avail = 0
    /\ c_result = NoResult

CodecSerialize ==
    /\ c_pc = "new"
    /\ c_data' = Serialize(c_packet)
    /\ c_pc' = "serialized"
    /\ UNCHANGED <<c_packet, c_avail, c_result, engineVars, publishVars,
                   surfaceVars>>

\* deserialize is handed the first k bytes of the frame
CodecDeserialize ==
    /\ c_pc = "serialized"
    /\ \E k \in 0..Len(c_data) :
         /\ c_avail' = k
         /\ c_result' = Deserialize(SubSeq(c_data, 1, k))
    /\ c_pc' = "deserialized"
    /\ UNCHANGED <<c_packet, c_data, engineVars, publishVars, surfaceVars>>

CodecNext == CodecSerialize \/ CodecDeserialize

SpecCodec == CodecInit /\ [][CodecNext]_vars

\* C7: deserialize(serialize(t, f, p)) is the packet (t, f, p) with exactly
\* 4 + len(p) bytes consumed, and with fewer than 4 + len(p) bytes available
\* it reports need-more, (None, 0).
C7_RoundTrip ==
    c_pc = "deserialized" =>
        IF c_avail = HEADER_SIZE + Len(c_packet.payload)
        THEN /\ c_result.packet = c_packet
             /\ c_result.consumed = HEADER_SIZE + Len(c_packet.payload)
        ELSE /\ c_avail < HEADER_SIZE + Len(c_packet.payload)
             /\ c_result.packet = None
             /\ c_result.consumed = 0

\* a whole frame with a payload longer than 255 bytes has been decoded
C7_Witness ==
    /\ c_pc = "deserialized"
    /\ Len(c_packet.payload) > 255
    /\ c_avail = Len(c_data)
    /\ c_result.packet = c_packet

(***************************************************************************)
(* Threads.  A thread is at a program counter, with a stack of the labels  *)
(* its calls return to, and the locals of the frames in progress.          *)
(***************************************************************************)
NoThread == <<"none", 0>>
MainThread == <<"main", 0>>
DasThread == <<"das", 0>>
ReaderThread(i) == <<"reader", i>>
Readers == {ReaderThread(i) : i \in 1..MaxSockets}
Callers == {MainThread, DasThread}
Threads == Callers \cup Readers
Sockets == 1..MaxSockets

\* pc: where the thread is; stack: the labels to return to; sock: the
\* socket object a recv or sendall in progress was called on; from: the
\* socket the last chunk was read from; data: the bytes sendall still has to
\* write; frame: how many frames the thread has begun to send; buffer,
\* consumed: the locals of _read_loop; res: the last call's result; cause:
\* why the read loop ended; req: the request method called last; call: the
\* number of the request in progress among the thread's calls, 0 when none
\* is; event: the Event of the request in progress is set; out: how the last
\* request ended; before: the method and the outcome of the request before
\* the last; lost_waiting: the connection was lost while the thread
\* waited for a response; replaced: another registration took the place of
\* the handler of the request in progress; epoch: how many connect() calls
\* had begun when the thread's disconnect() began; joined: the thread that
\* the thread's last disconnect() joined, NoThread when it joined none
ThreadAt(label) ==
    [pc |-> label, stack |-> <<>>, sock |-> 0, from |-> 0, data |-> <<>>,
     frame |-> 0, buffer |-> <<>>, consumed |-> 0, res |-> FALSE,
     cause |-> "none", req |-> "none", call |-> 0, event |-> FALSE,
     out |-> "none", before |-> <<"none", "none">>, lost_waiting |-> FALSE,
     replaced |-> FALSE, epoch |-> 0, joined |-> NoThread]

\* a socket object stays open until it is closed or no reference is left:
\* self.socket, or a recv/sendall in progress on it
OpenAfter(open, sock2, th2) ==
    {s \in open : s = sock2 \/ \E t \in Threads : th2[t].sock = s}

\* return from a call: pop the label
Return(t, rec) ==
    [rec EXCEPT !.pc = Head(rec.stack), !.stack = Tail(rec.stack)]

\* a payload stands for a JSON document by its first byte: 123, '{', is an
\* object; every other payload (the empty one too) does not parse
JsonObject(payload) == payload # <<>> /\ payload[1] = 123

\* data.get('topic', ''): the topic is the payload's second byte, 0 for ''
PubTopic(payload) == IF Len(payload) >= 2 THEN payload[2] ELSE 0

\* json.loads(payload) returns: '{' and '[', 123 and 91, begin a document
JsonParses(payload) == payload # <<>> /\ payload[1] \in {123, 91}

\* self._temp_handlers[packet_type], as the set of the items of that key
TempHandler(handlers, type) == {h \in handlers : h[1] = type}

\* mutant of WithoutTempHandler: the entry stays
WithoutTempHandlerKeeps(handlers, type) == handlers

\* del self._temp_handlers[packet_type], if the key is there
WithoutTempHandler(handlers, type) == handlers \ TempHandler(handlers, type)

\* Client._register_temp_packet_handler: the entry of the type, if any, is
\* deleted and the new handler stored
RegisterTempPacketHandler(handlers, type, t, call) ==
    WithoutTempHandler(handlers, type) \cup {<<type, t, call>>}

\* the one-shot handlers: handle_response of get_my_admin_topics and of
\* get_topic_sensors_config return None; admin_list_handler returns False
\* when the payload does not parse
HandlerReturnsFalse(packet) ==
    packet.packet_type = ADMIN_LIST_RESP /\ ~JsonParses(packet.payload)

\* _handle_packet, first part: a one-shot handler is registered for the
\* type, it is called, and unless it returns False it is removed and the
\* packet is done with
TempHandlerDone(packet) ==
    /\ TempHandler(temp_handlers, packet.packet_type) # {}
    /\ ~HandlerReturnsFalse(packet)

\* every one-shot handler sets the Event of the call that made it; the
\* Event of a call that has returned is waited on by nobody
SetEvent(thr, type) ==
    [t \in DOMAIN thr |->
        IF \E h \in TempHandler(temp_handlers, type) :
               h[2] = t /\ h[3] = thr[t].call
        THEN [thr[t] EXCEPT !.event = TRUE] ELSE thr[t]]

\* the threads waiting in response_received.wait() when the connection is
\* lost
MarkWaiters(thr) ==
    [t \in DOMAIN thr |->
        IF thr[t].pc = "g_wait" /\ ~thr[t].event
        THEN [thr[t] EXCEPT !.lost_waiting = TRUE] ELSE thr[t]]

(***************************************************************************)
(* Client._handle_admin_request_response: TRUE iff an exception leaves it. *)
(* The try block parses a non-empty payload and calls the callback; its    *)
(* except block calls the callback once more, outside any try.             *)
(***************************************************************************)
AdminReqAckRaises(packet, cb_raises) ==
    LET parse_fails == packet.payload # <<>> /\ ~JsonObject(packet.payload)
        called_in_try ==
            /\ admin_request_callback
            /\ ~parse_fails
            /\ (packet.flags = 0 => packet.payload # <<>>)
        raised_in_try == parse_fails \/ (called_in_try /\ cb_raises)
    IN  raised_in_try /\ admin_request_callback /\ cb_raises

\* Client._handle_packet: TRUE iff an exception leaves it.  Every branch
\* catches what its callback raises, but for ADMIN_REQ_ACK
HandlerEscapes(packet, cb_raises) ==
    /\ ~TempHandlerDone(packet)
    /\ packet.packet_type = ADMIN_REQ_ACK
    /\ AdminReqAckRaises(packet, cb_raises)

\* Client._handle_packet on the default rules, CONNACK: self.connected = True
ConnackSetsConnected(packet) ==
    /\ ~TempHandlerDone(packet)
    /\ packet.packet_type = CONNACK

(***************************************************************************)
(* Client._read_loop                                                       *)
(***************************************************************************)
\* while self.running and self.socket: ... self.socket.recv(4096)
ReaderLoop(r) ==
    /\ th[r].pc = "r_loop"
    /\ IF running /\ socket # 0
       THEN th' = [th EXCEPT ![r].pc = "r_recv", ![r].sock = socket]
       ELSE th' = [th EXCEPT ![r].pc = "x_flag", ![r].cause = "stopped"]
    /\ UNCHANGED <<clientVars, envVars, histVars, nonEngineVars>>

\* recv returns k bytes: extend the buffer and take the copy to process.
\* A recv that was blocked when the descriptor got closed may still return
\* data (or fail, ReaderRecvEnd)
ReaderRecvData(r, k) ==
    /\ th[r].pc = "r_recv"
    /\ LET s == th[r].sock
       IN  /\ k \in 1..Len(sock_in[s])
           /\ recv_buffer' = recv_buffer \o SubSeq(sock_in[s], 1, k)
           /\ sock_in' = [sock_in EXCEPT ![s] = SubSeq(@, k + 1, Len(@))]
           /\ th' = [th EXCEPT ![r].pc = "r_proc", ![r].sock = 0,
                               ![r].from = s, ![r].buffer = recv_buffer',
                               ![r].consumed = 0]
    /\ sock_open' = OpenAfter(sock_open, socket, th')
    /\ UNCHANGED <<socket, connected, running, read_thread, temp_handlers,
                   requesting_admin_topics, topic_handlers,
                   admin_request_callback, next_sock, sock_eof, wire,
                   histVars, nonEngineVars>>

\* recv returns b'' or raises: the peer is gone and nothing is left to
\* read, or the descriptor was closed under the call
ReaderRecvEnd(r) ==
    /\ th[r].pc = "r_recv"
    /\ LET s == th[r].sock
       IN  \/ s \in sock_eof /\ sock_in[s] = <<>>
           \/ s \notin sock_open
    /\ th' = [th EXCEPT ![r].pc = "x_flag", ![r].sock = 0,
                        ![r].cause = "read"]
    /\ sock_open' = OpenAfter(sock_open, socket, th')
    /\ UNCHANGED <<clientVars, next_sock, sock_eof, sock_in, wire, histVars,
                   nonEngineVars>>

\* mutant of NextPacket: the frame is decoded from the start of the buffer
NextPacketFromStart(buffer, consumed) ==
    LET d == Deserialize(buffer)
    IN  [packet |-> d.packet, consumed |-> d.consumed, stop |-> d.packet = None]

\* one turn of the inner loop: deserialize(buffer[consumed:]); the loop
\* breaks when the packet is None, whatever the count of bytes consumed
NextPacket(buffer, consumed) ==
    LET d == Deserialize(SubSeq(buffer, consumed + 1, Len(buffer)))
    IN  [packet |-> d.packet, consumed |-> d.consumed, stop |-> d.packet = None]

\* the inner loop ends: self._recv_buffer = self._recv_buffer[consumed:]
ReaderCompact(r) ==
    /\ th[r].pc = "r_proc"
    /\ \/ th[r].consumed >= Len(th[r].buffer)
       \/ NextPacket(th[r].buffer, th[r].consumed).stop
    /\ recv_buffer' = SubSeq(recv_buffer, th[r].consumed + 1, Len(recv_buffer))
    /\ th' = [th EXCEPT ![r].pc = "r_loop", ![r].buffer = <<>>,
                        ![r].consumed = 0]
    /\ UNCHANGED <<socket, connected, running, read_thread, temp_handlers,
                   requesting_admin_topics, topic_handlers,
                   admin_request_callback, envVars, histVars, nonEngineVars>>

\* one packet is decoded and given to _handle_packet, whose callback
\* returns or raises (cb_raises)
ReaderDispatch(r, cb_raises) ==
    /\ th[r].pc = "r_proc"
    /\ th[r].consumed < Len(th[r].buffer)
    /\ LET n == NextPacket(th[r].buffer, th[r].consumed)
           packet == n.packet
       IN  /\ ~n.stop
           /\ n.packet # None
           /\ handled' = Append(handled, packet)
           /\ temp_handlers' =
                  IF TempHandlerDone(packet)
                  THEN WithoutTempHandler(temp_handlers, packet.packet_type)
                  ELSE temp_handlers
           /\ connected' = IF ConnackSetsConnected(packet) THEN TRUE
                           ELSE connected
           /\ ack_sock' = IF ConnackSetsConnected(packet) THEN th[r].from
                          ELSE ack_sock
           /\ th' = LET after == IF HandlerEscapes(packet, cb_raises)
                                 THEN [th EXCEPT ![r].pc = "x_flag",
                                                 ![r].cause = "exception"]
                                 ELSE [th EXCEPT ![r].consumed = @ + n.consumed]
                    IN  SetEvent(after, packet.packet_type)
           /\ notified' = IF ConnackSetsConnected(packet)
                          THEN NotifyUp(notified, connected) ELSE notified
    /\ UNCHANGED <<socket, running, read_thread, recv_buffer,
                   requesting_admin_topics, topic_handlers,
                   admin_request_callback, envVars, lost, sent, nonEngineVars>>

\* after the loop: self.running = False; self.connected = False; the
\* observer is told
ReaderExitFlag(r) ==
    /\ th[r].pc = "x_flag"
    /\ running' = FALSE
    /\ connected' = FALSE
    /\ th' = [th EXCEPT ![r].pc = "x_close"]
    /\ notified' = NotifyDown(notified)
    /\ UNCHANGED <<socket, read_thread, recv_buffer, temp_handlers,
                   requesting_admin_topics, topic_handlers,
                   admin_request_callback, envVars, handled, ack_sock, lost,
                   sent, nonEngineVars>>

\* if self.socket: close it; self.socket = None.  The thread ends
ReaderExitClose(r) ==
    /\ th[r].pc = "x_close"
    /\ socket' = 0
    /\ th' = MarkWaiters([th EXCEPT ![r].pc = "r_done"])
    /\ sock_open' = OpenAfter(sock_open \ {socket}, 0, th')
    /\ lost' = TRUE
    /\ UNCHANGED <<connected, running, read_thread, recv_buffer,
                   temp_handlers, requesting_admin_topics, topic_handlers,
                   admin_request_callback, next_sock, sock_eof, sock_in, wire,
                   handled, ack_sock, sent, notified, nonEngineVars>>

(***************************************************************************)
(* Client._send_packet                                                     *)
(***************************************************************************)
\* self.client_id.encode('utf-8'), the payload of CONN
client_id_utf8 == <<97, 108, 105, 99, 101>>

\* the bytes of one frame as they lie on the wire, each tagged with the
\* thread that wrote it and the number of the frame among that thread's
Tagged(t, n, bytes) ==
    [i \in 1..Len(bytes) |-> [by |-> t, frame |-> n, byte |-> bytes[i]]]

\* a call of _send_packet(packet) that returns to label
CallSend(rec, packet, label) ==
    [rec EXCEPT !.pc = "s_check", !.stack = <<label>> \o @,
                !.data = Serialize(packet)]

\* if not self.socket: return False; else self.socket.sendall(data) begins
SendCheck(t) ==
    /\ th[t].pc = "s_check"
    /\ IF socket = 0
       THEN th' = [th EXCEPT ![t] = Return(t, [@ EXCEPT !.res = FALSE,
                                                        !.data = <<>>])]
       ELSE th' = [th EXCEPT ![t].pc = "s_write", ![t].sock = socket,
                             ![t].frame = @ + 1]
    /\ UNCHANGED <<clientVars, envVars, histVars, nonEngineVars>>

\* sendall hands the next k bytes to the socket; with the last of them it
\* returns and _send_packet returns True
SendWrite(t, k) ==
    /\ th[t].pc = "s_write"
    /\ k \in 1..Len(th[t].data)
    /\ LET s == th[t].sock
           rest == SubSeq(th[t].data, k + 1, Len(th[t].data))
       IN  /\ s \in sock_open
           /\ wire' = [wire EXCEPT ![s] =
                          @ \o Tagged(t, th[t].frame, SubSeq(th[t].data, 1, k))]
           /\ th' = IF rest = <<>>
                    THEN [th EXCEPT ![t] = Return(t, [@ EXCEPT !.res = TRUE,
                                                       !.data = <<>>,
                                                       !.sock = 0])]
                    ELSE [th EXCEPT ![t].data = rest]
    /\ sock_open' = OpenAfter(sock_open, socket, th')
    /\ UNCHANGED <<clientVars, next_sock, sock_eof, sock_in, histVars,
                   nonEngineVars>>

\* sendall raises (the descriptor is closed, or the peer is gone): the
\* except block calls self.disconnect()
SendFail(t) ==
    /\ th[t].pc = "s_write"
    /\ \/ th[t].sock \notin sock_open
       \/ th[t].sock \in sock_eof
    /\ th' = [th EXCEPT ![t].pc = "d_stop", ![t].stack = <<"s_failed">> \o @,
                        ![t].sock = 0, ![t].data = <<>>,
                        ![t].epoch = next_sock]
    /\ sock_open' = OpenAfter(sock_open, socket, th')
    /\ UNCHANGED <<clientVars, next_sock, sock_eof, sock_in, wire, histVars,
                   nonEngineVars>>

(***************************************************************************)
(* Client.disconnect                                                       *)
(***************************************************************************)
\* return from disconnect(); into the except block of _send_packet, which
\* returns False at once
ReturnFromDisconnect(t, rec) ==
    LET back == Return(t, [rec EXCEPT !.epoch = 0])
    IN  IF back.pc = "s_failed"
        THEN Return(t, [back EXCEPT !.res = FALSE])
        ELSE back

\* a thread other than the reader calls disconnect()
CallerDisconnect(t) ==
    /\ th[t].pc = "idle"
    /\ th' = [th EXCEPT ![t].pc = "d_stop", ![t].stack = <<"idle">>,
                        ![t].epoch = next_sock]
    /\ UNCHANGED <<clientVars, envVars, histVars, nonEngineVars>>

\* self.running = False; then, if self.read_thread is set and is not the
\* calling thread, read_thread.join(timeout=1.0), which returns when the
\* reader has ended or after a second, whichever comes first
DiscStop(t) ==
    /\ th[t].pc = "d_stop"
    /\ running' = FALSE
    /\ th' = [th EXCEPT ![t].pc = "d_close",
                        ![t].joined = IF read_thread # t THEN read_thread
                                      ELSE NoThread]
    /\ UNCHANGED <<socket, connected, read_thread, recv_buffer, temp_handlers,
                   requesting_admin_topics, topic_handlers,
                   admin_request_callback, envVars, histVars, nonEngineVars>>

\* if self.socket: self.socket.close(); self.socket = None
DiscClose(t) ==
    /\ th[t].pc = "d_close"
    /\ socket' = 0
    /\ th' = [th EXCEPT ![t].pc = "d_flag"]
    /\ sock_open' = OpenAfter(sock_open \ {socket}, 0, th')
    /\ UNCHANGED <<connected, running, read_thread, recv_buffer,
                   temp_handlers, requesting_admin_topics, topic_handlers,
                   admin_request_callback, next_sock, sock_eof, sock_in, wire,
                   histVars, nonEngineVars>>

\* was_connected = self.connected; self.connected = False; the observer is
\* told if was_connected.  _temp_handlers is left as it is
DiscFlag(t) ==
    /\ th[t].pc = "d_flag"
    /\ connected' = FALSE
    /\ th' = MarkWaiters([th EXCEPT ![t] = ReturnFromDisconnect(t, @)])
    /\ lost' = (lost \/ th[t].epoch = next_sock)
    /\ notified' = IF connected THEN NotifyDown(notified) ELSE notified
    /\ UNCHANGED <<socket, running, read_thread, recv_buffer, temp_handlers,
                   requesting_admin_topics, topic_handlers,
                   admin_request_callback, envVars, handled, ack_sock, sent,
                   nonEngineVars>>

(***************************************************************************)
(* Client.connect                                                          *)
(***************************************************************************)
\* self.socket = socket.socket(...); self.socket.connect(...), which
\* succeeds (ok) or raises; then _send_packet(CONN).  self.connected is
\* not touched.  The socket object that self.socket named before is closed
\* when nothing refers to it any more.  A socket whose connect raised stays
\* in self.socket but is no connection: it is not in sock_open, reads and
\* writes on it fail
Connect(t, ok) ==
    /\ th[t].pc = "idle"
    /\ next_sock < MaxSockets
    /\ LET new == next_sock + 1
       IN  /\ next_sock' = new
           /\ socket' = new
           /\ th' = IF ok
                    THEN [th EXCEPT ![t] =
                            CallSend([@ EXCEPT !.stack = <<"idle">>],
                                     Packet(CONN, 0, client_id_utf8), "c_start")]
                    ELSE [th EXCEPT ![t].res = FALSE]
           /\ sock_open' = OpenAfter(IF ok THEN sock_open \cup {new}
                                     ELSE sock_open, new, th')
    /\ lost' = FALSE
    /\ UNCHANGED <<connected, running, read_thread, recv_buffer,
                   temp_handlers, requesting_admin_topics, topic_handlers,
                   admin_request_callback, sock_eof, sock_in, wire, handled,
                   ack_sock, sent, notified, nonEngineVars>>

\* the result of _send_packet is dropped; self.running = True; a new
\* thread is started on _read_loop
ConnectStart(t) ==
    /\ th[t].pc = "c_start"
    /\ running' = TRUE
    /\ read_thread' = ReaderThread(next_sock)
    /\ th' = [th EXCEPT ![t].pc = "c_wait",
                        ![ReaderThread(next_sock)].pc = "r_loop"]
    /\ UNCHANGED <<socket, connected, recv_buffer, temp_handlers,
                   requesting_admin_topics, topic_handlers,
                   admin_request_callback, envVars, histVars, nonEngineVars>>

\* while not self.connected and less than 5 s have passed: sleep;
\* return self.connected
ConnectReturn(t) ==
    /\ th[t].pc = "c_wait"
    /\ th' = [th EXCEPT ![t] = Return(t, [@ EXCEPT !.res = connected])]
    /\ UNCHANGED <<clientVars, envVars, histVars, nonEngineVars>>

(***************************************************************************)
(* The requests that wait for their response: Client.get_my_admin_topics,  *)
(* Client.get_topic_sensors_config and Client.get_pending_admin_requests.  *)
(* Each registers a one-shot handler for the type of its response, sends   *)
(* its request and waits up to five seconds on an Event the handler sets.  *)
(***************************************************************************)
RequestKinds == {"my_admin_topics", "topic_sensors", "pending_admin_requests",
                 "my_topics", "my_admin_requests"}

MY_ADMIN_REQ == 19

MY_ADMIN_RESP == 20

MY_TOPICS_REQ == 32

MY_TOPICS_RESP == 33

\* the request packet of each method; the topic of get_topic_sensors_config
\* is "t"
RequestPacket(kind) ==
    CASE kind = "my_admin_topics" -> Packet(MY_ADMIN_TOPICS_REQ, 0, <<>>)
      [] kind = "topic_sensors" -> Packet(TOPIC_SENSORS_REQ, 0, <<116>>)
      [] kind = "pending_admin_requests" -> Packet(ADMIN_LIST_REQ, 0, <<>>)
      [] kind = "my_topics" -> Packet(MY_TOPICS_REQ, 0, <<>>)
      [] kind = "my_admin_requests" -> Packet(MY_ADMIN_REQ, 0, <<>>)

\* the packet type the one-shot handler of each method is registered for
ResponseType(kind) ==
    CASE kind = "my_admin_topics" -> MY_ADMIN_TOPICS_RESP
      [] kind = "topic_sensors" -> TOPIC_SENSORS_RESP
      [] kind = "pending_admin_requests" -> ADMIN_LIST_RESP
      [] kind = "my_topics" -> MY_TOPICS_RESP
      [] kind = "my_admin_requests" -> MY_ADMIN_RESP

\* get_my_admin_topics alone looks at a flag before it begins and clears it
\* when it ends
Guarded(kind) == kind = "my_admin_topics"

\* get_my_admin_topics and get_topic_sensors_config remove the handler in a
\* finally block; get_pending_admin_requests removes it after the wait, and
\* returns without removing it when _send_packet returns False
RemovesAfterFailedSend(kind) == kind # "pending_admin_requests"

\* the method returns: how it ended is kept in out
GetFinally(t, rec, how) ==
    Return(t, [rec EXCEPT !.out = how, !.res = (how = "response"),
                          !.call = 0])

\* the method is called: if not self.connected it returns [] (no step);
\* get_my_admin_topics returns [] when _requesting_admin_topics is set;
\* otherwise the body begins
RequestBegin(t, kind) ==
    /\ th[t].pc = "idle"
    /\ connected
    /\ th[t].frame < MaxSends
    /\ IF Guarded(kind) /\ requesting_admin_topics
       THEN th' = [th EXCEPT ![t].req = kind, ![t].out = "busy",
                             ![t].before = <<th[t].req, th[t].out>>,
                             ![t].res = FALSE, ![t].event = FALSE,
                             ![t].lost_waiting = FALSE,
                             ![t].replaced = FALSE]
       ELSE th' = [th EXCEPT ![t].pc = "g_reg", ![t].req = kind,
                             ![t].before = <<th[t].req, th[t].out>>,
                             ![t].stack = <<"idle">>, ![t].event = FALSE,
                             ![t].out = "none", ![t].lost_waiting = FALSE,
                             ![t].replaced = FALSE]
    /\ UNCHANGED <<clientVars, envVars, histVars, nonEngineVars>>

GetMyAdminTopics(t) == RequestBegin(t, "my_admin_topics")

GetTopicSensorsConfig(t) == RequestBegin(t, "topic_sensors")

GetPendingAdminRequests(t) == RequestBegin(t, "pending_admin_requests")

\* the threads whose waiting request loses its handler to a registration
\* for the same type
MarkReplaced(thr, type) ==
    [t \in DOMAIN thr |->
        IF /\ ~thr[t].event
           /\ \E h \in TempHandler(temp_handlers, type) :
                  h[2] = t /\ h[3] = thr[t].call
        THEN [thr[t] EXCEPT !.replaced = TRUE] ELSE thr[t]]

\* the body: the flag is set (get_my_admin_topics), the one-shot handler
\* registered and the request given to _send_packet
GetRegister(t) ==
    /\ th[t].pc = "g_reg"
    /\ LET kind == th[t].req
           call == th[t].frame + 1
       IN  /\ requesting_admin_topics' =
                  IF Guarded(kind) THEN TRUE ELSE requesting_admin_topics
           /\ temp_handlers' =
                  RegisterTempPacketHandler(temp_handlers, ResponseType(kind),
                                            t, call)
           /\ th' = [MarkReplaced(th, ResponseType(kind)) EXCEPT ![t] =
                        CallSend([@ EXCEPT !.call = call],
                                 RequestPacket(kind), "g_sent")]
    /\ UNCHANGED <<socket, connected, running, read_thread, recv_buffer,
                   topic_handlers, admin_request_callback, envVars, histVars,
                   nonEngineVars>>

\* if self._send_packet(packet): wait for the response; else return []
GetSent(t) ==
    /\ th[t].pc = "g_sent"
    /\ LET kind == th[t].req
       IN  IF th[t].res
           THEN /\ th' = [th EXCEPT ![t].pc = "g_wait"]
                /\ UNCHANGED <<temp_handlers, requesting_admin_topics>>
           ELSE /\ th' = [th EXCEPT ![t] = GetFinally(t, @, "send_failed")]
                /\ temp_handlers' =
                       IF RemovesAfterFailedSend(kind)
                       THEN WithoutTempHandler(temp_handlers,
                                               ResponseType(kind))
                       ELSE temp_handlers
                /\ requesting_admin_topics' =
                       IF Guarded(kind) THEN FALSE
                       ELSE requesting_admin_topics
    /\ UNCHANGED <<socket, connected, running, read_thread, recv_buffer,
                   topic_handlers, admin_request_callback, envVars, histVars,
                   nonEngineVars>>

\* the wait of up to five seconds returns: the event is set and the answer
\* is returned, or the time is over and [] is returned.  Whatever handler is
\* registered for the type is removed, and get_my_admin_topics clears its
\* flag
GetWaitEnd(t) ==
    /\ th[t].pc = "g_wait"
    /\ th' = [th EXCEPT ![t] =
                GetFinally(t, @, IF th[t].event THEN "response" ELSE "timeout")]
    /\ temp_handlers' =
           WithoutTempHandler(temp_handlers, ResponseType(th[t].req))
    /\ requesting_admin_topics' =
           IF Guarded(th[t].req) THEN FALSE ELSE requesting_admin_topics
    /\ UNCHANGED <<socket, connected, running, read_thread, recv_buffer,
                   topic_handlers, admin_request_callback, envVars, histVars,
                   nonEngineVars>>

(***************************************************************************)
(* Client.get_my_topics and Client.get_my_admin_requests give their        *)
(* request to _send_packet first, register the one-shot handler once it    *)
(* has returned True, and then poll a flag the handler sets.               *)
(***************************************************************************)
\* the method is called on a connected client: the request is given to
\* _send_packet, nothing is registered yet
SendFirstBegin(t, kind) ==
    /\ th[t].pc = "idle"
    /\ connected
    /\ th[t].frame < MaxSends
    /\ th' = [th EXCEPT ![t] =
                CallSend([th[t] EXCEPT !.req = kind,
                                       !.before = <<th[t].req, th[t].out>>,
                                       !.stack = <<"idle">>, !.event = FALSE,
                                       !.out = "none", !.lost_waiting = FALSE,
                                       !.replaced = FALSE,
                                       !.call = th[t].frame + 1],
                         RequestPacket(kind), "g_late")]
    /\ UNCHANGED <<clientVars, envVars, histVars, nonEngineVars>>

GetMyTopics(t) == SendFirstBegin(t, "my_topics")

GetMyAdminRequests(t) == SendFirstBegin(t, "my_admin_requests")

\* if not self._send_packet(packet): return []; otherwise the handler is
\* registered and the wait begins
GetRegisterLate(t) ==
    /\ th[t].pc = "g_late"
    /\ IF th[t].res
       THEN /\ temp_handlers' =
                   RegisterTempPacketHandler(temp_handlers,
                                             ResponseType(th[t].req), t,
                                             th[t].call)
            /\ th' = [MarkReplaced(th, ResponseType(th[t].req))
                          EXCEPT ![t].pc = "g_wait"]
       ELSE /\ th' = [th EXCEPT ![t] = GetFinally(t, @, "send_failed")]
            /\ UNCHANGED temp_handlers
    /\ UNCHANGED <<socket, connected, running, read_thread, recv_buffer,
                   requesting_admin_topics, topic_handlers,
                   admin_request_callback, envVars, histVars, nonEngineVars>>

(***************************************************************************)
(* Client.publish as the engine sees it: one PUB frame to send             *)
(***************************************************************************)
\* the payload of publish, shortened: topic_length 1, the topic, no message
PubPayload == <<1, 116>>

CallerPublish(t) ==
    /\ th[t].pc = "idle"
    /\ connected
    /\ th[t].frame < MaxSends
    /\ th' = [th EXCEPT ![t] =
                CallSend([@ EXCEPT !.stack = <<>>],
                         Packet(PUB, 0, PubPayload), "idle")]
    /\ UNCHANGED <<clientVars, envVars, histVars, nonEngineVars>>

(***************************************************************************)
(* The broker                                                              *)
(***************************************************************************)
\* the frames the broker sends to the engine: CONNACK and the answer to
\* MY_ADMIN_TOPICS_REQ, '[' standing for a JSON list
BrokerFrames ==
    {Packet(CONNACK, 0, <<>>), Packet(MY_ADMIN_TOPICS_RESP, 0, <<91>>)}

\* the connection of socket s is up at the peer: the descriptor is open, or
\* was closed under a recv or sendall that is still in progress
PeerUp(s) ==
    /\ s \notin sock_eof
    /\ \/ s \in sock_open
       \/ \E t \in Threads : th[t].sock = s

\* the broker sends a frame: CONNACK once CONN has been written, the answer
\* to a request once the request has been written, at any later time
BrokerSend(s, packet) ==
    /\ Len(sent) < MaxAnswers
    /\ PeerUp(s)
    /\ Len(wire[s]) >= HEADER_SIZE + Len(client_id_utf8)
    /\ (\E kind \in RequestKinds : packet.packet_type = ResponseType(kind)) =>
           \E i \in 1..Len(wire[s]) :
               \E kind \in RequestKinds :
                   /\ packet.packet_type = ResponseType(kind)
                   /\ wire[s][i].byte = RequestPacket(kind).packet_type
    /\ sock_in' = [sock_in EXCEPT ![s] = @ \o Serialize(packet)]
    /\ sent' = Append(sent, packet)
    /\ UNCHANGED <<clientVars, th, next_sock, sock_open, sock_eof, wire,
                   handled, ack_sock, lost, notified, nonEngineVars>>

\* the peer closes the connection, or the connection breaks
BrokerClose(s) ==
    /\ s \in sock_open
    /\ s \notin sock_eof
    /\ sock_eof' = sock_eof \cup {s}
    /\ UNCHANGED <<clientVars, th, next_sock, sock_open, sock_in, wire,
                   histVars, nonEngineVars>>

(***************************************************************************)
(* SpecReader: a connected engine whose one reader reads a stream of up to *)
(* MaxFrames frames, delivered by recv in chunks of any size.  Callbacks   *)
(* return or raise.                                                        *)
(***************************************************************************)
RECURSIVE Concat(_)
Concat(frames) ==
    IF frames = <<>> THEN <<>>
    ELSE Serialize(Head(frames)) \o Concat(Tail(frames))

\* the frames of the stream: PUB for topic 1 (which has a handler), for
\* topic 2 (which has none) and with a payload that is no JSON; PUBACK, which
\* no rule handles; ADMIN_REQ_ACK, success and failure; and a frame whose
\* type byte, 21, is no value of PacketType
ReaderFrames ==
    { Packet(PUB, 0, <<123, 1>>), Packet(PUB, 0, <<123, 2>>),
      Packet(PUB, 0, <<33>>), Packet(PUBACK, 0, <<>>),
      Packet(ADMIN_REQ_ACK, 0, <<123>>), Packet(ADMIN_REQ_ACK, 1, <<33>>),
      Packet(21, 0, <<65>>) }

RECURSIVE FrameSeqs(_, _)
FrameSeqs(F, n) ==
    IF n = 0 THEN {<<>>}
    ELSE LET shorter == FrameSeqs(F, n - 1)
         IN  shorter \cup {<<f>> \o s : f \in F, s \in {x \in shorter : Len(x) = n - 1}}

ReaderInit ==
    /\ CodecIdle /\ PublishIdle /\ SurfaceIdle
    /\ socket = 1 /\ connected = TRUE /\ running = TRUE
    /\ read_thread = ReaderThread(1)
    /\ recv_buffer = <<>> /\ temp_handlers = {}
    /\ requesting_admin_topics = FALSE
    /\ topic_handlers = {<<1, 1>>}
    /\ admin_request_callback = TRUE
    /\ th = [t \in Threads |->
                IF t = ReaderThread(1) THEN ThreadAt("r_loop")
                ELSE IF t \in Readers THEN ThreadAt("unborn")
                ELSE ThreadAt("idle")]
    /\ next_sock = 1 /\ sock_open = {1} /\ sock_eof = {}
    /\ sent \in FrameSeqs(ReaderFrames, MaxFrames)
    /\ sock_in = [s \in Sockets |-> IF s = 1 THEN Concat(sent) ELSE <<>>]
    /\ wire = [s \in Sockets |-> <<>>]
    /\ handled = <<>> /\ ack_sock = 1 /\ lost = FALSE /\ notified = NotifiedAt(connected)

ReaderNext ==
    \/ \E r \in Readers : ReaderLoop(r)
    \/ \E r \in Readers : \E k \in 1..(MaxFrames * (HEADER_SIZE + 2)) :
            ReaderRecvData(r, k)
    \/ \E r \in Readers : ReaderRecvEnd(r)
    \/ \E r \in Readers : ReaderCompact(r)
    \/ \E r \in Readers : \E cb_raises \in BOOLEAN : ReaderDispatch(r, cb_raises)
    \/ \E r \in Readers : ReaderExitFlag(r)
    \/ \E r \in Readers : ReaderExitClose(r)
    \/ \E s \in Sockets : BrokerClose(s)

SpecReader == ReaderInit /\ [][ReaderNext]_vars

\* how many of the leading frames lie wholly within the first n bytes
RECURSIVE CompleteFrames(_, _)
CompleteFrames(frames, n) ==
    IF frames = <<>> \/ Len(Serialize(Head(frames))) > n THEN 0
    ELSE 1 + CompleteFrames(Tail(frames), n - Len(Serialize(Head(frames))))

\* the frames of recognised type among them, in order
RECURSIVE Recognised(_)
Recognised(frames) ==
    IF frames = <<>> THEN <<>>
    ELSE IF Head(frames).packet_type \in PacketType
         THEN <<Head(frames)>> \o Recognised(Tail(frames))
         ELSE Recognised(Tail(frames))

\* the bytes recv has returned so far on socket 1
Delivered == Len(Concat(sent)) - Len(sock_in[1])

\* the reader is between two passes over the buffer
BetweenReads(r) == th[r].pc \in {"r_loop", "r_recv"}

\* what a reader that decodes every complete frame and keeps the rest has
\* dispatched and holds after Delivered bytes
FramingDone ==
    LET n == CompleteFrames(sent, Delivered)
        whole == SubSeq(sent, 1, n)
    IN  /\ handled = Recognised(whole)
        /\ recv_buffer = SubSeq(Concat(sent), Len(Concat(whole)) + 1, Delivered)

\* C6: for a stream of valid frames in any chunking, what was dispatched is
\* at every moment a prefix of the frames sent (each once, in arrival order),
\* and between two reads every complete frame has been dispatched and the
\* receive buffer holds exactly the bytes of the trailing incomplete frame.
C6_FramesInOrderNoResidue ==
    (\A i \in 1..Len(sent) : sent[i].packet_type \in PacketType) =>
        /\ Len(handled) <= Len(sent)
        /\ handled = SubSeq(sent, 1, Len(handled))
        /\ BetweenReads(ReaderThread(1)) => FramingDone

\* three valid frames came in more than one chunk, the last chunk ending
\* inside a frame, and all were dispatched
C6_Witness ==
    /\ Len(sent) = MaxFrames
    /\ \A i \in 1..Len(sent) : sent[i].packet_type \in PacketType
    /\ th[ReaderThread(1)].pc = "r_recv"
    /\ Len(handled) = MaxFrames - 1
    /\ recv_buffer # <<>>

\* C8 (the claim as stated): a complete frame of unrecognised type is
\* dropped, the frames after it are dispatched, and the buffer keeps only
\* the trailing incomplete frame.
C8_UnknownTypeSkipped ==
    BetweenReads(ReaderThread(1)) => FramingDone

\* C9 (the claim as stated): no inbound frame makes the reader leave its
\* loop: not unparseable JSON, not a missing handler, not a callback that
\* raises.
C9_ProtocolErrorKeepsReader ==
    \A r \in Readers : th[r].cause # "exception"

(***************************************************************************)
(* Spec: the connection engine.  The main thread calls connect(),          *)
(* disconnect(), get_my_admin_topics() and publish() one after the other,  *)
(* in any order; each connect() starts a reader; the broker answers, sends *)
(* late, or closes.  sendall writes a frame at once and recv returns all   *)
(* that has arrived (SpecSend has a second sender and writes in pieces,    *)
(* SpecReader reads in pieces).                                            *)
(***************************************************************************)
EngineInit ==
    /\ CodecIdle /\ PublishIdle /\ SurfaceIdle
    /\ socket = 0 /\ connected = FALSE /\ running = FALSE
    /\ read_thread = NoThread
    /\ recv_buffer = <<>> /\ temp_handlers = {}
    /\ requesting_admin_topics = FALSE
    /\ topic_handlers = {} /\ admin_request_callback = FALSE
    /\ th = [t \in Threads |->
                IF t \in Readers THEN ThreadAt("unborn") ELSE ThreadAt("idle")]
    /\ next_sock = 0 /\ sock_open = {} /\ sock_eof = {}
    /\ sock_in = [s \in Sockets |-> <<>>]
    /\ wire = [s \in Sockets |-> <<>>]
    /\ handled = <<>> /\ ack_sock = 0 /\ lost = FALSE /\ notified = NotifiedAt(connected) /\ sent = <<>>

\* sendall writes the whole frame in one piece
SendWriteAll(t) ==
    /\ th[t].pc = "s_write"
    /\ SendWrite(t, Len(th[t].data))

\* recv returns everything that has arrived
ReaderRecvAll(r) ==
    /\ th[r].pc = "r_recv"
    /\ ReaderRecvData(r, Len(sock_in[th[r].sock]))

Next ==
    \/ \E ok \in BOOLEAN : Connect(MainThread, ok)
    \/ ConnectStart(MainThread)
    \/ ConnectReturn(MainThread)
    \/ CallerDisconnect(MainThread)
    \/ GetMyAdminTopics(MainThread)
    \/ GetRegister(MainThread)
    \/ GetSent(MainThread)
    \/ GetWaitEnd(MainThread)
    \/ CallerPublish(MainThread)
    \/ \E t \in Callers : SendCheck(t)
    \/ \E t \in Callers : SendWriteAll(t)
    \/ \E t \in Callers : SendFail(t)
    \/ \E t \in Callers : DiscStop(t)
    \/ \E t \in Callers : DiscClose(t)
    \/ \E t \in Callers : DiscFlag(t)
    \/ \E r \in Readers : ReaderLoop(r)
    \/ \E r \in Readers : ReaderRecvAll(r)
    \/ \E r \in Readers : ReaderRecvEnd(r)
    \/ \E r \in Readers : ReaderCompact(r)
    \/ \E r \in Readers : ReaderDispatch(r, FALSE)
    \/ \E r \in Readers : ReaderExitFlag(r)
    \/ \E r \in Readers : ReaderExitClose(r)
    \/ \E s \in Sockets : \E packet \in BrokerFrames : BrokerSend(s, packet)
    \/ \E s \in Sockets : BrokerClose(s)

Spec == EngineInit /\ [][Next]_vars

\* C1 (the claim as stated): whenever self.connected is true, the CONNACK
\* dispatched last was read from the socket of the latest connect() call, and
\* no loss of connection has completed since that call began.
C1_ConnectedOnlyAfterConnack ==
    connected => (next_sock # 0 /\ ack_sock = next_sock /\ ~lost)

\* C2 (the claim as stated): once a read error or EOF, a failed send or a
\* disconnect() has run to its end, and until connect() is called again,
\* self.connected is false and self.socket is cleared.
C2_LossLeavesDisconnected ==
    lost => (~connected /\ socket = 0)

\* C3 (the claim as stated): a request that was waiting for its response
\* when the connection was lost ends with the outcome connection_lost.
C3_WaiterGetsConnectionLost ==
    \A t \in Callers :
        (th[t].lost_waiting /\ th[t].pc # "g_wait" /\ th[t].out # "response")
            => th[t].out = "connection_lost"

\* C28 (the claim as stated): the observer is told Disconnected once per
\* loss of connection, so at most once per socket that connect() created,
\* and Connected once per CONNACK that made the engine Connected.
C28_ObserverToldOncePerChange ==
    /\ notified.down <= next_sock
    /\ notified.up = notified.made

\* C38 (the claim as stated): when connect() returns failure after its wait
\* for the CONNACK, the engine is Disconnected, self.socket is no live
\* connection, running is False and no reader is in the read loop.
C38_FailedConnectLeavesNothing ==
    [][\A t \in Callers :
          (th[t].pc = "c_wait" /\ th'[t].pc # "c_wait" /\ ~connected)
              => /\ ~connected' /\ ~running'
                 /\ socket' \notin sock_open'
                 /\ \A r \in Readers : th'[r].pc \in {"unborn", "r_done"}]_vars

\* the readers inside the loop of _read_loop
Reading == {r \in Readers : th[r].pc \in {"r_loop", "r_recv", "r_proc"}}

\* C4 (the claim as stated): when the calls of connect() and disconnect()
\* made so far have returned, at most one socket is open and at most one
\* reader thread is in its read loop.
C4_OneSocketOneReader ==
    (\A t \in Callers : th[t].pc = "idle") =>
        /\ Cardinality(sock_open) <= 1
        /\ Cardinality(Reading) <= 1

(***************************************************************************)
(* SpecDisconnect: a connected engine on which any thread calls            *)
(* disconnect(): the callers, and the reader from the handler of a PUB.    *)
(* The threads are scheduled fairly; the broker sends and closes as it     *)
(* likes; a recv in progress on a descriptor that was closed under it      *)
(* returns when data or the end of the stream arrives, and may or may not  *)
(* return before.                                                          *)
(***************************************************************************)
\* the reader dispatches a PUB whose topic handler calls self.disconnect()
ReaderHandlerDisconnect(r) ==
    /\ th[r].pc = "r_proc"
    /\ th[r].consumed < Len(th[r].buffer)
    /\ LET n == NextPacket(th[r].buffer, th[r].consumed)
           packet == n.packet
       IN  /\ ~n.stop
           /\ n.packet # None
           /\ packet.packet_type = PUB
           /\ JsonObject(packet.payload)
           /\ \E item \in topic_handlers : item[1] = PubTopic(packet.payload)
           /\ handled' = Append(handled, packet)
           /\ th' = [th EXCEPT ![r].pc = "d_stop", ![r].stack = <<"r_proc">>,
                               ![r].consumed = @ + n.consumed,
                               ![r].epoch = next_sock]
    /\ UNCHANGED <<clientVars, envVars, ack_sock, lost, sent, notified,
                   nonEngineVars>>

\* recv returns b'': the peer is gone and nothing is left to read
ReaderRecvEof(r) ==
    /\ th[r].pc = "r_recv"
    /\ th[r].sock \in sock_eof
    /\ sock_in[th[r].sock] = <<>>
    /\ ReaderRecvEnd(r)

\* the frames the broker sends in SpecDisconnect
DisconnectFrames == {Packet(PUB, 0, <<123, 1>>), Packet(CONNACK, 0, <<>>)}

DisconnectInit ==
    /\ CodecIdle /\ PublishIdle /\ SurfaceIdle
    /\ socket = 1 /\ connected = TRUE /\ running = TRUE
    /\ read_thread = ReaderThread(1)
    /\ recv_buffer = <<>> /\ temp_handlers = {}
    /\ requesting_admin_topics = FALSE
    /\ topic_handlers = {<<1, 1>>} /\ admin_request_callback = FALSE
    /\ th = [t \in Threads |->
                IF t = ReaderThread(1) THEN ThreadAt("r_loop")
                ELSE IF t \in Readers THEN ThreadAt("unborn")
                ELSE ThreadAt("idle")]
    /\ next_sock = 1 /\ sock_open = {1} /\ sock_eof = {}
    /\ sock_in = [s \in Sockets |-> <<>>]
    /\ wire = [s \in Sockets |->
                 IF s = 1
                 THEN Tagged(MainThread, 0,
                             Serialize(Packet(CONN, 0, client_id_utf8)))
                 ELSE <<>>]
    /\ handled = <<Packet(CONNACK, 0, <<>>)>> /\ ack_sock = 1
    /\ lost = FALSE /\ notified = NotifiedAt(connected)
    /\ sent = <<Packet(CONNACK, 0, <<>>)>>

DisconnectNext ==
    \/ \E t \in Callers : CallerDisconnect(t)
    \/ \E r \in Readers : ReaderHandlerDisconnect(r)
    \/ \E t \in Threads : DiscStop(t)
    \/ \E t \in Threads : DiscClose(t)
    \/ \E t \in Threads : DiscFlag(t)
    \/ \E r \in Readers : ReaderLoop(r)
    \/ \E r \in Readers : ReaderRecvAll(r)
    \/ \E r \in Readers : ReaderRecvEnd(r)
    \/ \E r \in Readers : ReaderCompact(r)
    \/ \E r \in Readers : ReaderDispatch(r, FALSE)
    \/ \E r \in Readers : ReaderExitFlag(r)
    \/ \E r \in Readers : ReaderExitClose(r)
    \/ \E s \in Sockets : \E packet \in DisconnectFrames : BrokerSend(s, packet)
    \/ \E s \in Sockets : BrokerClose(s)

\* every thread that can take a step of its own takes one in the end; recv
\* returns in the end when data or the end of the stream is there
DisconnectFairness ==
    /\ \A t \in Threads : WF_vars(DiscStop(t) \/ DiscClose(t) \/ DiscFlag(t))
    /\ \A r \in Readers :
          WF_vars(\/ ReaderLoop(r) \/ ReaderRecvAll(r) \/ ReaderRecvEof(r)
                  \/ ReaderCompact(r) \/ ReaderDispatch(r, FALSE)
                  \/ ReaderHandlerDisconnect(r)
                  \/ ReaderExitFlag(r) \/ ReaderExitClose(r))

SpecDisconnect ==
    DisconnectInit /\ [][DisconnectNext]_vars /\ DisconnectFairness

\* the thread is inside disconnect()
InDisconnect(t) == th[t].pc \in {"d_stop", "d_close", "d_flag"}

\* C29 (the claim as stated): disconnect() joins no thread on itself and
\* returns, whatever thread calls it; and once it has returned the engine
\* gets Disconnected and no reader is left in the read loop.
C29_DisconnectEndsReader ==
    /\ [](\A t \in Threads : th[t].joined # t)
    /\ \A t \in Threads : InDisconnect(t) ~> ~InDisconnect(t)
    /\ lost ~> (~connected /\ Reading = {})

(***************************************************************************)
(* SpecSend: a connected engine, the CONN of the main thread and one PUB   *)
(* of the DAS thread on the wire, on which both threads publish at the     *)
(* same time, sendall handing the bytes of a frame to the socket in pieces *)
(* of any size.                                                            *)
(***************************************************************************)
SendInit ==
    /\ CodecIdle /\ PublishIdle /\ SurfaceIdle
    /\ socket = 1 /\ connected = TRUE /\ running = TRUE
    /\ read_thread = ReaderThread(1)
    /\ recv_buffer = <<>> /\ temp_handlers = {}
    /\ requesting_admin_topics = FALSE
    /\ topic_handlers = {} /\ admin_request_callback = FALSE
    /\ th = [t \in Threads |->
                IF t = ReaderThread(1) THEN ThreadAt("r_loop")
                ELSE IF t \in Readers THEN ThreadAt("unborn")
                ELSE [ThreadAt("idle") EXCEPT !.frame = 1, !.res = TRUE]]
    /\ next_sock = 1 /\ sock_open = {1} /\ sock_eof = {}
    /\ sock_in = [s \in Sockets |-> <<>>]
    /\ wire = [s \in Sockets |->
                 IF s = 1
                 THEN Tagged(MainThread, 1,
                             Serialize(Packet(CONN, 0, client_id_utf8)))
                      \o Tagged(DasThread, 1,
                                Serialize(Packet(PUB, 0, PubPayload)))
                 ELSE <<>>]
    /\ handled = <<Packet(CONNACK, 0, <<>>)>> /\ ack_sock = 1
    /\ lost = FALSE /\ notified = NotifiedAt(connected) /\ sent = <<Packet(CONNACK, 0, <<>>)>>

SendNext ==
    \/ \E t \in Callers : CallerPublish(t)
    \/ \E t \in Callers : SendCheck(t)
    \/ \E t \in Callers : \E k \in 1..(HEADER_SIZE + Len(PubPayload)) :
            SendWrite(t, k)
    \/ \E t \in Callers : SendFail(t)
    \/ \E t \in Callers : DiscStop(t)
    \/ \E t \in Callers : DiscClose(t)
    \/ \E t \in Callers : DiscFlag(t)
    \/ \E r \in Readers : ReaderLoop(r)
    \/ \E r \in Readers : ReaderRecvEnd(r)
    \/ \E r \in Readers : ReaderExitFlag(r)
    \/ \E r \in Readers : ReaderExitClose(r)
    \/ \E s \in Sockets : BrokerClose(s)

SpecSend == SendInit /\ [][SendNext]_vars

\* two bytes on the wire belong to the same frame
SameFrame(a, b) == a.by = b.by /\ a.frame = b.frame

\* C5 (the claim as stated): on every socket the bytes of a frame lie
\* together, no byte of another frame between them, and the frames of one
\* thread lie in the order in which it sent them.
C5_WritesNotInterleaved ==
    \A s \in DOMAIN wire :
        \A i, j \in 1..Len(wire[s]) :
            i < j =>
                /\ SameFrame(wire[s][i], wire[s][j]) =>
                       \A k \in i..j : SameFrame(wire[s][k], wire[s][i])
                /\ wire[s][i].by = wire[s][j].by =>
                       wire[s][i].frame <= wire[s][j].frame

(***************************************************************************)
(* SpecRequests: a connected engine on which two threads call the methods  *)
(* that wait for a response, each up to MaxSends times, while the broker   *)
(* answers one of the requests, or none, and the connection may break.     *)
(***************************************************************************)
\* the answers of the broker: a JSON list or object, and an ADMIN_LIST_RESP
\* whose payload is empty
RequestAnswers ==
    { Packet(MY_ADMIN_TOPICS_RESP, 0, <<91>>),
      Packet(TOPIC_SENSORS_RESP, 0, <<123>>),
      Packet(ADMIN_LIST_RESP, 0, <<91>>),
      Packet(ADMIN_LIST_RESP, 0, <<>>) }

RequestsInit ==
    /\ CodecIdle /\ PublishIdle /\ SurfaceIdle
    /\ socket = 1 /\ connected = TRUE /\ running = TRUE
    /\ read_thread = ReaderThread(1)
    /\ recv_buffer = <<>> /\ temp_handlers = {}
    /\ requesting_admin_topics = FALSE
    /\ topic_handlers = {} /\ admin_request_callback = FALSE
    /\ th = [t \in Threads |->
                IF t = ReaderThread(1) THEN ThreadAt("r_loop")
                ELSE IF t \in Readers THEN ThreadAt("unborn")
                ELSE IF t = DasThread
                THEN [ThreadAt("idle") EXCEPT !.frame = 1, !.res = TRUE]
                ELSE ThreadAt("idle")]
    /\ next_sock = 1 /\ sock_open = {1} /\ sock_eof = {}
    /\ sock_in = [s \in Sockets |-> <<>>]
    /\ wire = [s \in Sockets |->
                 IF s = 1
                 THEN Tagged(MainThread, 0,
                             Serialize(Packet(CONN, 0, client_id_utf8)))
                      \o Tagged(DasThread, 1,
                                Serialize(Packet(PUB, 0, PubPayload)))
                 ELSE <<>>]
    /\ handled = <<Packet(CONNACK, 0, <<>>)>> /\ ack_sock = 1
    /\ lost = FALSE /\ notified = NotifiedAt(connected) /\ sent = <<Packet(CONNACK, 0, <<>>)>>

RequestsNext ==
    \/ \E t \in Callers : GetMyAdminTopics(t)
    \/ \E t \in Callers : GetTopicSensorsConfig(t)
    \/ GetPendingAdminRequests(MainThread)
    \/ \E t \in Callers : GetRegister(t)
    \/ \E t \in Callers : GetSent(t)
    \/ \E t \in Callers : GetWaitEnd(t)
    \/ \E t \in Callers : SendCheck(t)
    \/ \E t \in Callers : SendWriteAll(t)
    \/ \E t \in Callers : SendFail(t)
    \/ \E t \in Callers : DiscStop(t)
    \/ \E t \in Callers : DiscClose(t)
    \/ \E t \in Callers : DiscFlag(t)
    \/ \E r \in Readers : ReaderLoop(r)
    \/ \E r \in Readers : ReaderRecvAll(r)
    \/ \E r \in Readers : ReaderRecvEnd(r)
    \/ \E r \in Readers : ReaderCompact(r)
    \/ \E r \in Readers : ReaderDispatch(r, FALSE)
    \/ \E r \in Readers : ReaderExitFlag(r)
    \/ \E r \in Readers : ReaderExitClose(r)
    \/ \E s \in Sockets : \E packet \in RequestAnswers : BrokerSend(s, packet)
    \/ \E s \in Sockets : BrokerClose(s)

SpecRequests == RequestsInit /\ [][RequestsNext]_vars

\* C13 (the claim as stated): a request whose handler was replaced by a new
\* registration for the same packet type, while it waited, ends with the
\* outcome "replaced".
C13_ReplacedWaiterReleased ==
    \A t \in Callers :
        (th[t].pc = "idle" /\ th[t].replaced) => th[t].out = "replaced"

\* C14 (the claim as stated): every entry of the correlation table was
\* registered by a request that has not returned yet.
C14_TableHoldsOnlyWaitingRequests ==
    \A h \in temp_handlers : th[h[2]].call = h[3]

\* C37 (the claim as stated): the cleanup of a request, after its wait or
\* after its send failed, removes from the correlation table no handler
\* that another request registered.
C37_CleanupRemovesOwnHandlerOnly ==
    [][\A t \in Callers :
          (th[t].pc \in {"g_wait", "g_sent"} /\ th'[t].pc = "idle")
              => \A h \in temp_handlers \ temp_handlers' : h[2] = t]_vars

\* the thread is inside the body of a request method
InRequest(t, kind) == th[t].req = kind /\ th[t].pc # "idle"

\* no other thread is inside get_my_admin_topics
Alone(t) ==
    \A u \in Callers \ {t} : ~InRequest(u, "my_admin_topics")

\* the last get_my_admin_topics of the thread ended by its timeout
TimedOut(t) ==
    /\ th[t].pc = "idle"
    /\ th[t].req = "my_admin_topics"
    /\ th[t].out = "timeout"

\* C15: once get_my_admin_topics has returned by its timeout, and no other
\* call of it is in progress, no handler is registered for
\* MY_ADMIN_TOPICS_RESP and the guard is clear; the next call of the thread
\* is accepted; and a call whose reply was dispatched while it waited
\* returns the reply.
C15_TimeoutLeavesNothingBehind ==
    /\ [](\A t \in Callers :
            (TimedOut(t) /\ Alone(t)) =>
                /\ ~requesting_admin_topics
                /\ TempHandler(temp_handlers, MY_ADMIN_TOPICS_RESP) = {})
    /\ [][\A t \in Callers :
            /\ (/\ TimedOut(t) /\ Alone(t)
                /\ th'[t] # th[t]
                /\ th'[t].req = "my_admin_topics") => th'[t].pc = "g_reg"
            /\ (/\ th[t].pc = "g_wait" /\ th[t].event
                /\ th[t].req = "my_admin_topics"
                /\ th'[t].pc = "idle") => th'[t].out = "response"]_vars

\* a call timed out and the call after it returned the reply
C15_Witness ==
    \E t \in Callers :
        /\ th[t].pc = "idle"
        /\ th[t].before = <<"my_admin_topics", "timeout">>
        /\ th[t].req = "my_admin_topics"
        /\ th[t].out = "response"

\* C16 (the claim as stated): at most one thread at a time is past the
\* guard of get_my_admin_topics with its handler registered and its
\* MY_ADMIN_TOPICS_REQ sent or about to be.
C16_OneRequestOutstanding ==
    Cardinality({t \in Callers :
                    th[t].req = "my_admin_topics" /\ th[t].call # 0}) <= 1

\* C30 (the claim as stated): a dispatch of a frame for whose type a
\* one-shot handler is registered leaves no handler registered for that type.
C30_OneShotHandlerRemoved ==
    [][\A r \in Readers :
          (/\ th[r].pc = "r_proc"
           /\ handled' # handled
           /\ TempHandler(temp_handlers,
                          handled'[Len(handled')].packet_type) # {})
              => TempHandler(temp_handlers',
                             handled'[Len(handled')].packet_type) = {}]_vars

(***************************************************************************)
(* SpecCorrelated: a connected engine on which the main thread calls       *)
(* get_my_topics, get_my_admin_requests and get_topic_sensors_config, one  *)
(* call at a time, while the broker answers the requests written and the   *)
(* connection may break.                                                   *)
(***************************************************************************)
\* the answers of the broker: JSON documents
CorrelatedAnswers ==
    { Packet(MY_TOPICS_RESP, 0, <<91>>),
      Packet(MY_ADMIN_RESP, 0, <<91>>),
      Packet(TOPIC_SENSORS_RESP, 0, <<123>>) }

CorrelatedInit == RequestsInit

CorrelatedNext ==
    \/ GetMyTopics(MainThread)
    \/ GetMyAdminRequests(MainThread)
    \/ GetTopicSensorsConfig(MainThread)
    \/ \E t \in Callers : GetRegister(t)
    \/ \E t \in Callers : GetRegisterLate(t)
    \/ \E t \in Callers : GetSent(t)
    \/ \E t \in Callers : GetWaitEnd(t)
    \/ \E t \in Callers : SendCheck(t)
    \/ \E t \in Callers : SendWriteAll(t)
    \/ \E t \in Callers : SendFail(t)
    \/ \E t \in Callers : DiscStop(t)
    \/ \E t \in Callers : DiscClose(t)
    \/ \E t \in Callers : DiscFlag(t)
    \/ \E r \in Readers : ReaderLoop(r)
    \/ \E r \in Readers : ReaderRecvAll(r)
    \/ \E r \in Readers : ReaderRecvEnd(r)
    \/ \E r \in Readers : ReaderCompact(r)
    \/ \E r \in Readers : ReaderDispatch(r, FALSE)
    \/ \E r \in Readers : ReaderExitFlag(r)
    \/ \E r \in Readers : ReaderExitClose(r)
    \/ \E s \in Sockets : \E packet \in CorrelatedAnswers :
            BrokerSend(s, packet)
    \/ \E s \in Sockets : BrokerClose(s)

SpecCorrelated == CorrelatedInit /\ [][CorrelatedNext]_vars

\* the frame of the request in progress of thread t is on the wire
RequestWritten(t) ==
    \E s \in DOMAIN wire :
        \E i \in 1..Len(wire[s]) :
            wire[s][i].by = t /\ wire[s][i].frame = th[t].call

\* C31 (the claim as stated): from the moment the frame of a request is
\* written until its reply has been given to its handler or the call
\* returns, the handler of the request is in the correlation table, so no
\* reply that follows the write finds the table without it.
C31_HandlerRegisteredBeforeWrite ==
    \A t \in Callers :
        (th[t].call # 0 /\ RequestWritten(t) /\ ~th[t].event) =>
            <<ResponseType(th[t].req), t, th[t].call>> \in temp_handlers

(***************************************************************************)
(* SpecTable: the first part of _handle_packet taken statement by          *)
(* statement.  The reader tests `packet_type in self._temp_handlers`,      *)
(* fetches the handler, calls it and deletes the entry, holding no lock,   *)
(* while the main thread calls get_topic_sensors_config and                *)
(* get_pending_admin_requests, whose registration and cleanup hold         *)
(* self._temp_handlers_lock.                                               *)
(***************************************************************************)
TableAnswers ==
    { Packet(TOPIC_SENSORS_RESP, 0, <<123>>),
      Packet(ADMIN_LIST_RESP, 0, <<91>>),
      Packet(ADMIN_LIST_RESP, 0, <<>>) }

\* the packet that _handle_packet is given next
PendingPacket(r) == NextPacket(th[r].buffer, th[r].consumed)

\* _handle_packet returns, or goes on to its second part, which does
\* nothing for the types of the responses
HandlePacketEnds(r) ==
    /\ handled' = Append(handled, PendingPacket(r).packet)
    /\ th' = [th EXCEPT ![r].consumed = @ + PendingPacket(r).consumed]

\* if packet.packet_type in self._temp_handlers:
HandleCheck(r) ==
    /\ th[r].pc = "r_proc"
    /\ th[r].consumed < Len(th[r].buffer)
    /\ handling.pc = "none"
    /\ ~PendingPacket(r).stop
    /\ PendingPacket(r).packet # None
    /\ LET type == PendingPacket(r).packet.packet_type
       IN  IF TempHandler(temp_handlers, type) # {}
           THEN /\ handling' = [pc |-> "found", type |-> type,
                                seen |-> TempHandler(temp_handlers, type),
                                handler |-> {}]
                /\ UNCHANGED <<handled, th>>
           ELSE /\ HandlePacketEnds(r)
                /\ UNCHANGED handling
    /\ UNCHANGED <<clientVars, envVars, ack_sock, lost, sent, notified,
                   codecVars, publishVars, api_log, dispatch_log, dasVars,
                   storeVars, acqVars, lineVars, orchVars, resignVars,
                   fanout, admin_result_callback>>

\* handler = self._temp_handlers[packet.packet_type]: a KeyError when the
\* entry is gone, which the except block prints
HandleFetch(r) ==
    /\ handling.pc = "found"
    /\ IF TempHandler(temp_handlers, handling.type) = {}
       THEN /\ HandlePacketEnds(r)
            /\ handling' = NotHandling
       ELSE /\ handling' = [handling EXCEPT
                               !.pc = "fetched",
                               !.handler = TempHandler(temp_handlers,
                                                       handling.type)]
            /\ UNCHANGED <<handled, th>>
    /\ UNCHANGED <<clientVars, envVars, ack_sock, lost, sent, notified,
                   codecVars, publishVars, api_log, dispatch_log, dasVars,
                   storeVars, acqVars, lineVars, orchVars, resignVars,
                   fanout, admin_result_callback>>

\* the handler fetched sets the Event of the call that made it
SetEventOf(thr, handlers) ==
    [t \in DOMAIN thr |->
        IF \E h \in handlers : h[2] = t /\ h[3] = thr[t].call
        THEN [thr[t] EXCEPT !.event = TRUE] ELSE thr[t]]

\* result = handler(packet.packet_type, packet.payload)
HandleCall(r) ==
    /\ handling.pc = "fetched"
    /\ IF HandlerReturnsFalse(PendingPacket(r).packet)
       THEN /\ handled' = Append(handled, PendingPacket(r).packet)
            /\ th' = [SetEventOf(th, handling.handler) EXCEPT
                         ![r].consumed = @ + PendingPacket(r).consumed]
            /\ handling' = NotHandling
       ELSE /\ th' = SetEventOf(th, handling.handler)
            /\ handling' = [handling EXCEPT !.pc = "called"]
            /\ UNCHANGED handled
    /\ UNCHANGED <<clientVars, envVars, ack_sock, lost, sent, notified,
                   codecVars, publishVars, api_log, dispatch_log, dasVars,
                   storeVars, acqVars, lineVars, orchVars, resignVars,
                   fanout, admin_result_callback>>

\* if packet.packet_type in self._temp_handlers: del ...; return
HandleDelete(r) ==
    /\ handling.pc = "called"
    /\ temp_handlers' = WithoutTempHandler(temp_handlers, handling.type)
    /\ HandlePacketEnds(r)
    /\ handling' = NotHandling
    /\ UNCHANGED <<socket, connected, running, read_thread, recv_buffer,
                   requesting_admin_topics, topic_handlers,
                   admin_request_callback, envVars, ack_sock, lost, sent,
                   notified, codecVars, publishVars, api_log, dispatch_log,
                   dasVars, storeVars, acqVars, lineVars, orchVars,
                   resignVars, fanout, admin_result_callback>>

TableInit == RequestsInit

TableNext ==
    \/ GetTopicSensorsConfig(MainThread)
    \/ GetPendingAdminRequests(MainThread)
    \/ \E t \in Callers : GetRegister(t)
    \/ \E t \in Callers : GetSent(t)
    \/ \E t \in Callers : GetWaitEnd(t)
    \/ \E t \in Callers : SendCheck(t)
    \/ \E t \in Callers : SendWriteAll(t)
    \/ \E t \in Callers : SendFail(t)
    \/ \E t \in Callers : DiscStop(t)
    \/ \E t \in Callers : DiscClose(t)
    \/ \E t \in Callers : DiscFlag(t)
    \/ \E r \in Readers : ReaderLoop(r)
    \/ \E r \in Readers : ReaderRecvAll(r)
    \/ \E r \in Readers : ReaderRecvEnd(r)
    \/ \E r \in Readers : ReaderCompact(r)
    \/ \E r \in Readers : HandleCheck(r)
    \/ \E r \in Readers : HandleFetch(r)
    \/ \E r \in Readers : HandleCall(r)
    \/ \E r \in Readers : HandleDelete(r)
    \/ \E r \in Readers : ReaderExitFlag(r)
    \/ \E r \in Readers : ReaderExitClose(r)
    \/ \E s \in Sockets : \E packet \in TableAnswers : BrokerSend(s, packet)
    \/ \E s \in Sockets : BrokerClose(s)

SpecTable == TableInit /\ [][TableNext]_vars

\* C32 (the claim as stated): between the reader's check and its fetch the
\* table holds for the type the handler the check found, and between the
\* call and the deletion it holds the handler that was fetched.
C32_TableStableUnderReader ==
    /\ handling.pc = "found" =>
           TempHandler(temp_handlers, handling.type) = handling.seen
    /\ handling.pc = "called" =>
           TempHandler(temp_handlers, handling.type) = handling.handler

(***************************************************************************)
(* SpecReaderCalls: a connected engine whose ADMIN_RESULT handler is the   *)
(* front end's on_admin_result (gui.py), which refreshes a view by calling *)
(* get_my_admin_requests or get_my_topics on the thread that called it.    *)
(* The broker sends ADMIN_RESULT frames and answers the requests written;  *)
(* the main thread calls get_my_admin_requests too.                        *)
(***************************************************************************)
ADMIN_RESULT == 15

\* what on_admin_result goes on to call for result_data, "none" when it
\* returns at once: the payload's second byte is 1 for '__admin_result',
\* 2 for '__admin_revoked'
RefreshRequest(payload) ==
    IF JsonObject(payload) /\ Len(payload) >= 2 /\ payload[2] = 1
    THEN "my_admin_requests"
    ELSE IF JsonObject(payload) /\ Len(payload) >= 2 /\ payload[2] = 2
    THEN "my_topics"
    ELSE "none"

ReaderCallFrames ==
    { Packet(ADMIN_RESULT, 0, <<123, 1>>),
      Packet(ADMIN_RESULT, 0, <<123, 2>>),
      Packet(ADMIN_RESULT, 0, <<123>>),
      Packet(MY_ADMIN_RESP, 0, <<91>>),
      Packet(MY_TOPICS_RESP, 0, <<91>>) }

ReaderCallsInit ==
    /\ CodecIdle /\ PublishIdle /\ SurfaceIdle
    /\ socket = 1 /\ connected = TRUE /\ running = TRUE
    /\ read_thread = ReaderThread(1)
    /\ recv_buffer = <<>> /\ temp_handlers = {}
    /\ requesting_admin_topics = FALSE
    /\ topic_handlers = {} /\ admin_request_callback = FALSE
    /\ th = [t \in Threads |->
                IF t = ReaderThread(1) THEN ThreadAt("r_loop")
                ELSE IF t \in Readers THEN ThreadAt("unborn")
                ELSE ThreadAt("idle")]
    /\ next_sock = 1 /\ sock_open = {1} /\ sock_eof = {}
    /\ sock_in = [s \in Sockets |-> <<>>]
    /\ wire = [s \in Sockets |->
                 IF s = 1
                 THEN Tagged(MainThread, 0,
                             Serialize(Packet(CONN, 0, client_id_utf8)))
                 ELSE <<>>]
    /\ handled = <<>> /\ ack_sock = 1
    /\ lost = FALSE /\ notified = NotifiedAt(connected) /\ sent = <<>>

\* register_admin_result_handler(self.on_admin_result)
RegisterAdminResultHandler ==
    /\ ~admin_result_callback
    /\ admin_result_callback' = TRUE
    /\ UNCHANGED <<codecVars, engineVars, publishVars, api_log, dispatch_log,
                   dasVars, storeVars, acqVars, lineVars, orchVars,
                   resignVars, handling, fanout>>

\* _handle_packet for ADMIN_RESULT: the payload is parsed and the handler
\* called on the reader; on_admin_result calls the request method, which
\* gives its request to _send_packet
ReaderAdminResult(r) ==
    /\ th[r].pc = "r_proc"
    /\ th[r].consumed < Len(th[r].buffer)
    /\ ~PendingPacket(r).stop
    /\ PendingPacket(r).packet # None
    /\ PendingPacket(r).packet.packet_type = ADMIN_RESULT
    /\ LET kind == RefreshRequest(PendingPacket(r).packet.payload)
       IN  IF admin_result_callback /\ kind # "none" /\ connected
           THEN /\ th' = [th EXCEPT ![r] =
                            CallSend([th[r] EXCEPT
                                         !.req = kind,
                                         !.stack = <<"r_back">>,
                                         !.event = FALSE, !.out = "none",
                                         !.call = th[r].frame + 1],
                                     RequestPacket(kind), "g_late")]
                /\ UNCHANGED handled
           ELSE HandlePacketEnds(r)
    /\ UNCHANGED <<clientVars, envVars, ack_sock, lost, sent, notified,
                   nonEngineVars>>

\* the request method has returned to on_admin_result, which returns to
\* _handle_packet
ReaderCallbackReturns(r) ==
    /\ th[r].pc = "r_back"
    /\ handled' = Append(handled, PendingPacket(r).packet)
    /\ th' = [th EXCEPT ![r].pc = "r_proc",
                        ![r].consumed = @ + PendingPacket(r).consumed]
    /\ UNCHANGED <<clientVars, envVars, ack_sock, lost, sent, notified,
                   nonEngineVars>>

\* _handle_packet for every other frame
ReaderDispatchOther(r) ==
    /\ th[r].pc = "r_proc"
    /\ th[r].consumed < Len(th[r].buffer)
    /\ PendingPacket(r).packet # None
    /\ PendingPacket(r).packet.packet_type # ADMIN_RESULT
    /\ ReaderDispatch(r, FALSE)

ReaderCallsNext ==
    \/ RegisterAdminResultHandler
    \/ GetMyAdminRequests(MainThread)
    \/ \E t \in Threads : GetRegisterLate(t)
    \/ \E t \in Threads : GetWaitEnd(t)
    \/ \E t \in Threads : SendCheck(t)
    \/ \E t \in Threads : SendWriteAll(t)
    \/ \E r \in Readers : ReaderLoop(r)
    \/ \E r \in Readers : ReaderRecvAll(r)
    \/ \E r \in Readers : ReaderCompact(r)
    \/ \E r \in Readers : ReaderAdminResult(r)
    \/ \E r \in Readers : ReaderCallbackReturns(r)
    \/ \E r \in Readers : ReaderDispatchOther(r)
    \/ \E s \in Sockets : \E packet \in ReaderCallFrames :
            BrokerSend(s, packet)

SpecReaderCalls == ReaderCallsInit /\ [][ReaderCallsNext]_vars

\* C36 (the claim as stated): no reader thread is ever waiting, inside a
\* callback it runs, for the reply to a request that the callback sent.
C36_ReaderNeverWaitsForReply ==
    \A r \in Readers : th[r].pc # "g_wait"

(***************************************************************************)
(* Client.subscribe, Client.unsubscribe and the PUB branch of              *)
(* Client._handle_packet.  A Python str is a sequence of one-character     *)
(* strings; topic_handlers is the set of the dict's items <<key, value>>.  *)
(***************************************************************************)
\* calls of subscribe and unsubscribe in one behaviour
MaxCalls == 3
\* PUB frames dispatched in one behaviour
MaxPubs == 1

\* '["' + topic + '"]'
WrapTopic(topic) == <<"[", "\"">> \o topic \o <<"\"", "]">>

\* str.startswith and str.endswith
StartsWith(str, prefix) ==
    Len(str) >= Len(prefix) /\ SubSeq(str, 1, Len(prefix)) = prefix

EndsWith(str, suffix) ==
    /\ Len(str) >= Len(suffix)
    /\ SubSeq(str, Len(str) - Len(suffix) + 1, Len(str)) = suffix

\* topic_normalized: topic[2:-2] if topic.startswith('["') and
\* topic.endswith('"]'), else topic
NormaliseTopic(topic) ==
    IF StartsWith(topic, <<"[", "\"">>) /\ EndsWith(topic, <<"\"", "]">>)
    THEN SubSeq(topic, 3, Len(topic) - 2)
    ELSE topic

\* the key under which the PUB branch finds the handler, as a sequence of
\* none or one: topic if it is a key of topic_handlers, else
\* topic_normalized if that is one
HandlerKey(handlers, topic) ==
    IF \E item \in handlers : item[1] = topic THEN <<topic>>
    ELSE IF \E item \in handlers : item[1] = NormaliseTopic(topic)
         THEN <<NormaliseTopic(topic)>>
         ELSE <<>>

\* self.topic_handlers[key]
HandlerOf(handlers, key) == (CHOOSE item \in handlers : item[1] = key)[2]

\* mutant of WithHandler: dict.setdefault, the first handler stays
WithHandlerKeepFirst(handlers, topic, callback) ==
    IF \E item \in handlers : item[1] = topic THEN handlers
    ELSE handlers \cup {<<topic, callback>>}

\* self.topic_handlers[topic] = callback
WithHandler(handlers, topic, callback) ==
    {item \in handlers : item[1] # topic} \cup {<<topic, callback>>}

\* if topic in self.topic_handlers: del self.topic_handlers[topic]
WithoutHandler(handlers, topic) == {item \in handlers : item[1] # topic}

\* message_obj: json.loads(message) when the message is a str that parses,
\* else the message as it came
MessageObj(message) ==
    IF message = "{\"v\":1}" THEN "dict{v:1}" ELSE message

\* the calls the PUB branch makes for json.loads(payload) = data.  kind is
\* the Python type of data.get('topic', ''); for a list, startswith raises
\* AttributeError and the except block drops the frame
PubCalls(handlers, data) ==
    IF data.kind # "str" THEN <<>>
    ELSE LET key == HandlerKey(handlers, data.topic)
         IN  IF key = <<>> THEN <<>>
             ELSE << [handler |-> HandlerOf(handlers, key[1]),
                      topic |-> key[1],
                      message |-> MessageObj(data.message)] >>

SampleTopicNames == {<<"t">>, <<"u">>}
\* the keys subscribe is called with: plain and in the wrapped form
SampleKeys == SampleTopicNames \cup {WrapTopic(<<"t">>)}
SampleHandlers == {1, 2}
\* the topic field of an inbound PUB: a str, plain or of the form ["t"]
\* (also the three characters ["] ), or a JSON array
SamplePubData ==
    [kind : {"str"},
     topic : SampleKeys \cup {WrapTopic(<<"u">>), <<"[", "\"", "]">>},
     message : {"hello", "{\"v\":1}"}]
    \cup [kind : {"list"}, topic : SampleTopicNames, message : {"hello"}]

SubsInit ==
    /\ CodecIdle /\ PublishIdle
    /\ connected \in BOOLEAN
    /\ socket = (IF connected THEN 1 ELSE 0)
    /\ running = connected
    /\ read_thread = NoThread
    /\ recv_buffer = <<>> /\ temp_handlers = {}
    /\ requesting_admin_topics = FALSE
    /\ topic_handlers = {} /\ admin_request_callback = FALSE
    /\ th = <<>>
    /\ next_sock = (IF connected THEN 1 ELSE 0)
    /\ sock_open = (IF connected THEN {1} ELSE {})
    /\ sock_eof = {} /\ sock_in = <<>> /\ wire = <<>>
    /\ handled = <<>> /\ ack_sock = socket /\ lost = FALSE /\ notified = NotifiedAt(connected) /\ sent = <<>>
    /\ SurfaceIdle

\* _send_packet on the engine as a whole: TRUE when the frame is written;
\* without a socket nothing happens; when sendall raises, disconnect() runs
SendOutcome(send_ok) ==
    /\ running' = IF socket # 0 /\ ~send_ok THEN FALSE ELSE running
    /\ sock_open' = IF socket # 0 /\ ~send_ok THEN sock_open \ {socket}
                    ELSE sock_open
    /\ socket' = IF send_ok THEN socket ELSE 0
    /\ connected' = IF socket # 0 /\ ~send_ok THEN FALSE ELSE connected
    /\ lost' = (lost \/ (socket # 0 /\ ~send_ok))
    /\ notified' = IF socket # 0 /\ ~send_ok /\ connected
                   THEN NotifyDown(notified) ELSE notified

\* subscribe(topic, callback): False when not connected; the SUB frame is
\* sent; the handler is stored only when _send_packet returned True
Subscribe(topic, callback, send_ok) ==
    /\ Len(api_log) < MaxCalls
    /\ LET sent_ok == connected /\ socket # 0 /\ send_ok
       IN  /\ IF connected THEN SendOutcome(send_ok)
              ELSE UNCHANGED <<running, sock_open, socket, connected, lost,
                                notified>>
           /\ topic_handlers' = IF sent_ok
                                THEN WithHandler(topic_handlers, topic, callback)
                                ELSE topic_handlers
           /\ api_log' = Append(api_log, [op |-> "subscribe", topic |-> topic,
                                          handler |-> callback, ok |-> sent_ok])
    /\ UNCHANGED <<read_thread, recv_buffer, temp_handlers,
                   requesting_admin_topics, admin_request_callback, th,
                   next_sock, sock_eof, sock_in, wire, handled, ack_sock, sent,
                   dispatch_log, nonSurfaceVars>>

\* unsubscribe(topic): False when not connected; the UNSUB frame is sent;
\* the entry is deleted only when _send_packet returned True
Unsubscribe(topic, send_ok) ==
    /\ Len(api_log) < MaxCalls
    /\ LET sent_ok == connected /\ socket # 0 /\ send_ok
       IN  /\ IF connected THEN SendOutcome(send_ok)
              ELSE UNCHANGED <<running, sock_open, socket, connected, lost,
                                notified>>
           /\ topic_handlers' = IF sent_ok
                                THEN WithoutHandler(topic_handlers, topic)
                                ELSE topic_handlers
           /\ api_log' = Append(api_log, [op |-> "unsubscribe", topic |-> topic,
                                          handler |-> 0, ok |-> sent_ok])
    /\ UNCHANGED <<read_thread, recv_buffer, temp_handlers,
                   requesting_admin_topics, admin_request_callback, th,
                   next_sock, sock_eof, sock_in, wire, handled, ack_sock, sent,
                   dispatch_log, nonSurfaceVars>>

\* the reader dispatches a PUB frame whose payload parses to data
HandlePub(data) ==
    /\ Len(dispatch_log) < MaxPubs
    /\ dispatch_log' = Append(dispatch_log, [data |-> data, handlers |-> topic_handlers,
                                   calls |-> PubCalls(topic_handlers, data)])
    /\ UNCHANGED <<engineVars, api_log, nonSurfaceVars>>

SubsNext ==
    \/ \E topic \in SampleKeys, callback \in SampleHandlers, send_ok \in BOOLEAN :
          Subscribe(topic, callback, send_ok)
    \/ \E topic \in SampleKeys, send_ok \in BOOLEAN : Unsubscribe(topic, send_ok)
    \/ \E data \in SamplePubData : HandlePub(data)

SpecSubs == SubsInit /\ [][SubsNext]_vars

\* the table the calls logged so far should have left: each successful
\* subscribe sets the entry of its topic, each successful unsubscribe
\* clears it, a failed call changes nothing
RECURSIVE Replay(_)
Replay(log) ==
    IF log = <<>> THEN {}
    ELSE LET before == Replay(SubSeq(log, 1, Len(log) - 1))
             call == log[Len(log)]
         IN  IF ~call.ok THEN before
             ELSE IF call.op = "subscribe"
                  THEN {item \in before : item[1] # call.topic}
                           \cup {<<call.topic, call.handler>>}
                  ELSE {item \in before : item[1] # call.topic}

\* C11: after any sequence of subscribe and unsubscribe calls the handler
\* table maps each topic to the handler of the latest successful subscribe
\* not followed by a successful unsubscribe; failed calls leave it unchanged.
C11_HandlerTableFollowsCalls ==
    topic_handlers = Replay(api_log)

\* a second subscribe replaced a handler, an unsubscribe cleared another
\* topic's handler, and a failed call came last
C11_Witness ==
    /\ Len(api_log) = MaxCalls
    /\ api_log[1].op = "subscribe" /\ api_log[1].ok
    /\ api_log[2].op = "subscribe" /\ api_log[2].ok
    /\ api_log[2].topic = api_log[1].topic
    /\ api_log[2].handler # api_log[1].handler
    /\ ~api_log[3].ok
    /\ topic_handlers = {<<api_log[2].topic, api_log[2].handler>>}

\* C12 (the claim as stated): for an inbound PUB whose topic is a plain
\* string or of the form ["string"], at most one handler is called, the one
\* stored under the raw topic if there is one, else the one stored under the
\* normalised topic, and it is called with the normalised topic and the
\* message.
C12_HandlerGetsNormalisedTopic ==
    \A i \in 1..Len(dispatch_log) :
        LET data == dispatch_log[i].data
            calls == dispatch_log[i].calls
            table == dispatch_log[i].handlers
            raw == data.topic
            normalised == NormaliseTopic(data.topic)
            HasKey(key) == \E item \in table : item[1] = key
        IN  data.kind = "str" =>
                /\ Len(calls) <= 1
                /\ Len(calls) = 1 <=> (HasKey(raw) \/ HasKey(normalised))
                /\ Len(calls) = 1 =>
                       /\ calls[1].handler =
                              IF HasKey(raw) THEN HandlerOf(table, raw)
                              ELSE HandlerOf(table, normalised)
                       /\ calls[1].topic = normalised
                       /\ calls[1].message = MessageObj(data.message)

(***************************************************************************)
(* Client.publish                                                          *)
(***************************************************************************)
\* self.client_id
client_id == "alice"

\* the longest JSON-encoded topic publish accepts, in bytes
MaxTopicBytes == 255

\* the owners and topics of the admin requests
SampleOwners == {"alice", "bob"}

SampleAdminTopics == {"weather"}

\* request_message of request_admin_status: json.dumps of the request, the
\* timestamp being 0
AdminRequestMessage(topic_name, owner_id) ==
    "{\"__admin_request\": true, \"client_id\": \"" \o client_id
        \o "\", \"topic_name\": \"" \o topic_name
        \o "\", \"owner_id\": \"" \o owner_id \o "\", \"timestamp\": 0}"

RECURSIVE Rep(_, _)
Rep(str, n) ==
    IF n = 0 THEN ""
    ELSE IF n % 2 = 0 THEN LET half == Rep(str, n \div 2) IN half \o half
         ELSE str \o Rep(str, n - 1)

\* json.loads on the model's messages.  raises: the text is no JSON.
\* type: the Python type of the value.  has_cliente: "cliente" in value,
\* for a dict a key, for a list an element, for a str a substring.
\* cliente: str() of value["cliente"]
JsonLoads(text) ==
    LET value(type, has, cliente) ==
            [raises |-> FALSE, type |-> type, has_cliente |-> has,
             cliente |-> cliente]
    IN  CASE text = "{\"cliente\":\"bob\",\"command\":\"x\"}" -> value("dict", TRUE, "bob")
          [] text = "{\"sensor\":\"t\",\"value\":22.4}" -> value("dict", FALSE, "")
          [] text = "{}" -> value("dict", FALSE, "")
          [] text = "[1,2]" -> value("list", FALSE, "")
          [] text = "[\"cliente\"]" -> value("list", TRUE, "")
          [] text = "\"hola\"" -> value("str", FALSE, "")
          [] text = "\"mi cliente\"" -> value("str", TRUE, "")
          [] text = "5" -> value("int", FALSE, "")
          [] text = "null" -> value("NoneType", FALSE, "")
          [] \E topic_name \in SampleAdminTopics, owner_id \in SampleOwners :
                 text = AdminRequestMessage(topic_name, owner_id)
                     -> value("dict", FALSE, "")
          [] OTHER -> [raises |-> TRUE, type |-> "", has_cliente |-> FALSE,
                       cliente |-> ""]

\* json.dumps([topic]) for a topic of plain ASCII without quotes
JsonDumpsList(topic) == "[\"" \o topic \o "\"]"

\* f"{message_dict['cliente']}/{topic}" if "cliente" in message_dict
\* else f"{self.client_id}/{topic}"; raises is TRUE where Python raises a
\* TypeError: the in test on a number, a bool or None, and the subscript
\* 'cliente' on a list or a str
BrokerTopic(topic, message_dict) ==
    IF message_dict.has_cliente /\ message_dict.type = "dict"
    THEN message_dict.cliente \o "/" \o topic
    ELSE client_id \o "/" \o topic

BrokerTopicRaises(message_dict) ==
    \/ message_dict.type \notin {"dict", "list", "str"}
    \/ message_dict.has_cliente /\ message_dict.type # "dict"

\* the body of publish up to the send: the packet to send, or none when the
\* client is not connected, an exception is caught or the topic is too long
PublishPacket(topic, message) ==
    LET message_dict == JsonLoads(message)
        wrapped_topic == JsonDumpsList(BrokerTopic(topic, message_dict))
        topic_length == Len(wrapped_topic)
    IN  IF \/ ~connected
           \/ message_dict.raises
           \/ BrokerTopicRaises(message_dict)
           \/ topic_length > MaxTopicBytes
        THEN None
        ELSE Packet(PUB, 0, <<topic_length, wrapped_topic, message>>)

(***************************************************************************)
(* SpecPublish: one call of publish(topic, message) on a client that is    *)
(* connected or not, whose socket accepts the write or fails.              *)
(***************************************************************************)
SampleTopics ==
    {"weather", "ctl", Rep("t", MaxTopicBytes - 10),
     Rep("t", MaxTopicBytes - 9), Rep("t", MaxTopicBytes - 8)}

SampleMessages ==
    {"{\"cliente\":\"bob\",\"command\":\"x\"}",
     "{\"sensor\":\"t\",\"value\":22.4}", "{}", "[1,2]", "[\"cliente\"]",
     "\"hola\"", "\"mi cliente\"", "5", "null", "hello"}

PublishInit ==
    /\ CodecIdle /\ SurfaceIdle
    /\ connected \in BOOLEAN
    /\ socket = (IF connected THEN 1 ELSE 0)
    /\ running = connected
    /\ read_thread = NoThread
    /\ recv_buffer = <<>> /\ temp_handlers = {}
    /\ requesting_admin_topics = FALSE
    /\ topic_handlers = {} /\ admin_request_callback = FALSE
    /\ th = <<>>
    /\ next_sock = (IF connected THEN 1 ELSE 0)
    /\ sock_open = (IF connected THEN {1} ELSE {})
    /\ sock_eof = {} /\ sock_in = <<>> /\ wire = <<>>
    /\ handled = <<>> /\ ack_sock = socket /\ lost = FALSE /\ notified = NotifiedAt(connected) /\ sent = <<>>
    /\ p_pc = "call"
    /\ p_topic \in SampleTopics
    /\ p_message \in SampleMessages
    /\ p_send_ok \in BOOLEAN
    /\ p_result = FALSE
    /\ p_frames = <<>>

\* publish: no packet, return False; else _send_packet, which returns
\* False without a socket, True once sendall has written the frame, and on
\* an exception of sendall runs disconnect() and returns False
Publish ==
    /\ p_pc = "call"
    /\ LET packet == PublishPacket(p_topic, p_message)
           written == packet # None /\ socket # 0 /\ p_send_ok
           failed == packet # None /\ socket # 0 /\ ~p_send_ok
       IN  /\ p_frames' = IF written THEN Append(p_frames, packet) ELSE p_frames
           /\ p_result' = written
           /\ running' = IF failed THEN FALSE ELSE running
           /\ sock_open' = IF failed THEN sock_open \ {socket} ELSE sock_open
           /\ socket' = IF failed THEN 0 ELSE socket
           /\ connected' = IF failed THEN FALSE ELSE connected
           /\ lost' = (lost \/ failed)
           /\ notified' = IF failed /\ connected THEN NotifyDown(notified)
                          ELSE notified
    /\ p_pc' = "done"
    /\ UNCHANGED <<read_thread, recv_buffer, temp_handlers,
                   requesting_admin_topics, topic_handlers,
                   admin_request_callback, th, next_sock, sock_eof, sock_in,
                   wire, handled, ack_sock, sent, p_topic, p_message,
                   p_send_ok, codecVars, surfaceVars>>

PublishNext == Publish

SpecPublish == PublishInit /\ [][PublishNext]_vars

\* the effective topic of the claim: <cliente>/<topic> when the message
\* parses as a JSON object with a cliente field, <client_id>/<topic> in
\* every other case
EffectiveTopic(topic, message) ==
    LET parsed == JsonLoads(message)
    IN  IF ~parsed.raises /\ parsed.type = "dict" /\ parsed.has_cliente
        THEN parsed.cliente \o "/" \o topic
        ELSE client_id \o "/" \o topic

\* the frame of the claim: PUB, flags 0, topic_len, the JSON array of the
\* effective topic, the message
ExpectedFrame(topic, message) ==
    Packet(PUB, 0, << Len(JsonDumpsList(EffectiveTopic(topic, message))),
                      JsonDumpsList(EffectiveTopic(topic, message)),
                      message >>)

\* C10 (the claim as stated, for a topic within the 255 byte limit and a
\* socket that takes the write): publish() on a connected client sends
\* exactly the expected PUB frame, whatever the message string.
C10_PublishSendsOneFrame ==
    ( /\ p_pc = "done"
      /\ connected
      /\ p_send_ok
      /\ Len(JsonDumpsList(EffectiveTopic(p_topic, p_message))) <= MaxTopicBytes )
        => p_frames = <<ExpectedFrame(p_topic, p_message)>>

(***************************************************************************)
(* Client.request_admin_status and Client._handle_admin_request_response.  *)
(* SpecAdmin: up to MaxRequests calls of request_admin_status, with or     *)
(* without a callback, on a client that is connected or not, and up to     *)
(* MaxAcks ADMIN_REQ_ACK frames dispatched in between.                     *)
(***************************************************************************)
MaxRequests == 2

MaxAcks == 2

\* the strings a byte of an ADMIN_REQ_ACK payload stands for
AckErrorCodes == <<"ALREADY_PENDING", "SELF_REQUEST">>

AckTopicNames == <<"weather">>

\* error_data.get('error_code', 'UNKNOWN_ERROR'): the payload's second byte
AckErrorCode(payload) ==
    IF Len(payload) >= 2 /\ payload[2] \in DOMAIN AckErrorCodes
    THEN AckErrorCodes[payload[2]] ELSE "UNKNOWN_ERROR"

\* response_data.get('topic_name', 'desconocido'): the payload's third byte
AckTopicName(payload) ==
    IF Len(payload) >= 3 /\ payload[3] \in DOMAIN AckTopicNames
    THEN AckTopicNames[payload[3]] ELSE "desconocido"

AckCall(success, error_code, topic_name) ==
    [success |-> success, error_code |-> error_code, topic_name |-> topic_name]

\* the calls of self._admin_request_callback that
\* _handle_admin_request_response(packet) makes, in order: in the try block
\* one call unless the payload is empty on success or does not parse; in the
\* except block, entered when the parse or the first call raised, one more
AdminReqAckCalls(packet, registered, cb_raises) ==
    LET parse_fails == packet.payload # <<>> /\ ~JsonObject(packet.payload)
        in_try ==
            IF parse_fails \/ ~registered THEN <<>>
            ELSE IF packet.flags = 0
            THEN IF packet.payload # <<>>
                 THEN <<AckCall(TRUE, "SUCCESS", AckTopicName(packet.payload))>>
                 ELSE <<>>
            ELSE IF packet.payload # <<>>
                 THEN <<AckCall(FALSE, AckErrorCode(packet.payload),
                                AckTopicName(packet.payload))>>
                 ELSE <<AckCall(FALSE, "PACKET_ERROR", "")>>
        raised_in_try == parse_fails \/ (in_try # <<>> /\ cb_raises)
    IN  IF raised_in_try /\ registered
        THEN Append(in_try, AckCall(FALSE, "PARSE_ERROR", ""))
        ELSE in_try

\* the ADMIN_REQ_ACK frames dispatched: success and failure, with an empty
\* payload, a payload that is no JSON, and JSON objects with and without
\* error_code and topic_name
SampleAcks ==
    {Packet(ADMIN_REQ_ACK, flags, payload) :
        flags \in {0, 1},
        payload \in {<<>>, <<33>>, <<123>>, <<123, 1, 1>>, <<123, 2, 1>>}}

AdminInit ==
    /\ CodecIdle /\ PublishIdle
    /\ connected \in BOOLEAN
    /\ socket = (IF connected THEN 1 ELSE 0)
    /\ running = connected
    /\ read_thread = NoThread
    /\ recv_buffer = <<>> /\ temp_handlers = {}
    /\ requesting_admin_topics = FALSE
    /\ topic_handlers = {} /\ admin_request_callback = FALSE
    /\ th = <<>>
    /\ next_sock = (IF connected THEN 1 ELSE 0)
    /\ sock_open = (IF connected THEN {1} ELSE {})
    /\ sock_eof = {} /\ sock_in = <<>> /\ wire = <<>>
    /\ handled = <<>> /\ ack_sock = socket /\ lost = FALSE /\ notified = NotifiedAt(connected) /\ sent = <<>>
    /\ SurfaceIdle

\* request_admin_status(topic_name, owner_id, callback): not connected, the
\* callback is told NOT_CONNECTED and False returned; otherwise the callback
\* is stored and the request published on "<owner_id>/admin"
RequestAdminStatus(topic_name, owner_id, callback, send_ok) ==
    /\ Len(api_log) < MaxRequests
    /\ LET packet == PublishPacket(owner_id \o "/admin",
                                   AdminRequestMessage(topic_name, owner_id))
           sent_ok == packet # None /\ socket # 0 /\ send_ok
       IN  /\ IF connected /\ packet # None THEN SendOutcome(send_ok)
              ELSE UNCHANGED <<running, sock_open, socket, connected, lost,
                                notified>>
           /\ admin_request_callback' =
                  IF connected /\ callback THEN TRUE
                  ELSE admin_request_callback
           /\ api_log' = Append(api_log,
                  [op |-> "request_admin_status", topic |-> topic_name,
                   owner |-> owner_id, ok |-> sent_ok,
                   frames |-> IF sent_ok THEN <<packet>> ELSE <<>>,
                   stored |-> connected /\ callback,
                   calls |-> IF ~connected /\ callback
                             THEN <<AckCall(FALSE, "NOT_CONNECTED", "")>>
                             ELSE <<>>])
    /\ UNCHANGED <<read_thread, recv_buffer, temp_handlers,
                   requesting_admin_topics, topic_handlers, th,
                   next_sock, sock_eof, sock_in, wire, handled, ack_sock, sent,
                   dispatch_log, nonSurfaceVars>>

\* the call of request_admin_status whose callback sits in
\* self._admin_request_callback after the calls in log: the last one that
\* stored its callback (nothing clears the attribute), 0 when there is none
CallbackOwner(log) ==
    LET stored == {i \in 1..Len(log) : log[i].stored}
    IN  IF stored = {} THEN 0
        ELSE CHOOSE i \in stored : \A j \in stored : j <= i

\* the call of request_admin_status whose request the n-th ADMIN_REQ_ACK
\* answers: the n-th call that sent its request, 0 when there is none yet
AnsweredRequest(log, n) ==
    LET sent_by == {i \in 1..Len(log) : log[i].ok}
        nth == {i \in sent_by :
                   Cardinality({j \in sent_by : j <= i}) = n}
    IN  IF nth = {} THEN 0 ELSE CHOOSE i \in nth : TRUE

\* the reader dispatches an ADMIN_REQ_ACK frame; the callback, if one is
\* registered, returns or raises
HandleAdminReqAck(packet, cb_raises) ==
    /\ Len(dispatch_log) < MaxAcks
    /\ dispatch_log' = Append(dispatch_log,
           [packet |-> packet, registered |-> admin_request_callback,
            cb_raises |-> cb_raises,
            slot |-> CallbackOwner(api_log),
            answers |-> AnsweredRequest(api_log, Len(dispatch_log) + 1),
            calls |-> AdminReqAckCalls(packet, admin_request_callback,
                                       cb_raises)])
    /\ UNCHANGED <<engineVars, api_log, nonSurfaceVars>>

AdminNext ==
    \/ \E topic_name \in SampleAdminTopics, owner_id \in SampleOwners,
          callback \in BOOLEAN, send_ok \in BOOLEAN :
            RequestAdminStatus(topic_name, owner_id, callback, send_ok)
    \/ \E packet \in SampleAcks, cb_raises \in BOOLEAN :
            HandleAdminReqAck(packet, cb_raises)

SpecAdmin == AdminInit /\ [][AdminNext]_vars

\* C17 (the claim as stated, for a callback that returns): every
\* ADMIN_REQ_ACK dispatched while a callback is registered calls it exactly
\* once, with success true iff flags is 0; for flags 1 and a JSON payload
\* that has them, with the payload's error_code and topic_name.
C17_AckCallsCallbackOnce ==
    \A i \in 1..Len(dispatch_log) :
        LET e == dispatch_log[i]
        IN  (e.registered /\ ~e.cb_raises) =>
                /\ Len(e.calls) = 1
                /\ e.calls[1].success = (e.packet.flags = 0)
                /\ (e.packet.flags = 1 /\ Len(e.packet.payload) >= 3) =>
                       /\ e.calls[1].error_code =
                              AckErrorCodes[e.packet.payload[2]]
                       /\ e.calls[1].topic_name =
                              AckTopicNames[e.packet.payload[3]]

\* C18 (the claim as stated): a call of request_admin_status whose owner_id
\* is the client's own client_id returns False and sends no frame.
C18_SelfRequestRejected ==
    \A i \in 1..Len(api_log) :
        api_log[i].owner = client_id =>
            ~api_log[i].ok /\ api_log[i].frames = <<>>

\* C40 (the claim as stated): an ADMIN_REQ_ACK that calls a callback calls
\* the callback of the request it answers, once, and no callback is called
\* by two ADMIN_REQ_ACK frames.
C40_CallbackForOwnAckOnce ==
    \A i \in 1..Len(dispatch_log) :
        LET e == dispatch_log[i]
        IN  e.calls # <<>> =>
                /\ e.slot = e.answers
                /\ Len(e.calls) = 1
                /\ \A j \in 1..(i - 1) :
                       dispatch_log[j].calls # <<>> =>
                           dispatch_log[j].slot # e.slot

(***************************************************************************)
(* SpecResign: up to MaxResigns calls of resign_admin_status, with or      *)
(* without a callback, on a client that is connected or not, and up to     *)
(* MaxResignAcks ADMIN_RESIGN_ACK frames that the broker sends and the     *)
(* reader dispatches.  SpecResignFair adds that the reader, while it runs, *)
(* dispatches every frame it has received.                                 *)
(***************************************************************************)
MaxResigns == 2

MaxResignAcks == 2

ADMIN_RESIGN_ACK == 37

\* response_data.get('success', False): the payload's second byte
ResignSuccess(payload) == Len(payload) >= 2 /\ payload[2] = 1

\* the ADMIN_RESIGN_ACK frames the broker sends: with an empty payload, a
\* payload that is no JSON, and JSON objects without success, with success
\* true and with success false
SampleResignAcks ==
    {Packet(ADMIN_RESIGN_ACK, 0, payload) :
        payload \in {<<>>, <<33>>, <<123>>, <<123, 1>>, <<123, 2>>}}

ResignInit == AdminInit

\* resign_admin_status(topic_name, callback): not connected, the callback is
\* told False and False returned; otherwise the callback is stored and what
\* _send_packet returns is returned
ResignAdminStatus(callback, send_ok) ==
    /\ Len(resign_log) < MaxResigns
    /\ IF connected THEN SendOutcome(send_ok)
       ELSE UNCHANGED <<running, sock_open, socket, connected, lost,
                         notified>>
    /\ admin_resign_callback' =
           IF connected /\ callback THEN Len(resign_log) + 1
           ELSE admin_resign_callback
    /\ resign_log' = Append(resign_log,
           [callback |-> callback,
            ok |-> connected /\ socket # 0 /\ send_ok,
            calls |-> IF ~connected /\ callback THEN <<FALSE>> ELSE <<>>])
    /\ UNCHANGED <<read_thread, recv_buffer, temp_handlers,
                   requesting_admin_topics, topic_handlers,
                   admin_request_callback, th, next_sock, sock_eof, sock_in,
                   wire, handled, ack_sock, sent, api_log, dispatch_log,
                   resign_in, resign_handled, codecVars, publishVars,
                   dasVars, storeVars, acqVars, lineVars, orchVars,
                   stepVars>>

\* the broker sends an ADMIN_RESIGN_ACK on the open connection
BrokerResignAck(packet) ==
    /\ Len(resign_in) < MaxResignAcks
    /\ socket # 0 /\ socket \in sock_open
    /\ resign_in' = Append(resign_in, packet)
    /\ UNCHANGED <<admin_resign_callback, resign_log, resign_handled,
                   nonResignVars>>

\* _handle_admin_resign_response(packet) on the reader: only a payload that
\* is a JSON object leads to a call of the stored callback, which is then
\* forgotten unless the call raised
HandleAdminResignAck(cb_raises) ==
    /\ running
    /\ resign_handled < Len(resign_in)
    /\ resign_handled' = resign_handled + 1
    /\ LET packet == resign_in[resign_handled + 1]
           called == /\ packet.payload # <<>> /\ JsonObject(packet.payload)
                     /\ admin_resign_callback # 0
       IN  /\ resign_log' =
                  IF called
                  THEN [resign_log EXCEPT ![admin_resign_callback].calls =
                            Append(@, ResignSuccess(packet.payload))]
                  ELSE resign_log
           /\ admin_resign_callback' =
                  IF called /\ ~cb_raises THEN 0 ELSE admin_resign_callback
    /\ UNCHANGED <<resign_in, nonResignVars>>

\* what the reader does by itself
ReaderResignStep == \E cb_raises \in BOOLEAN : HandleAdminResignAck(cb_raises)

ResignNext ==
    \/ \E callback \in BOOLEAN, send_ok \in BOOLEAN :
            ResignAdminStatus(callback, send_ok)
    \/ \E packet \in SampleResignAcks : BrokerResignAck(packet)
    \/ \E cb_raises \in BOOLEAN : HandleAdminResignAck(cb_raises)

SpecResign == ResignInit /\ [][ResignNext]_vars

SpecResignFair == SpecResign /\ WF_vars(ReaderResignStep)

\* the k-th call of resign_admin_status was made, with a callback
GivenCallback(k) == k \in DOMAIN resign_log /\ resign_log[k].callback

\* how often the callback of the k-th call of resign_admin_status was called
ResignCalls(k) ==
    IF k \in DOMAIN resign_log THEN Len(resign_log[k].calls) ELSE 0

\* C33 (the claim as stated): the callback given to any call of
\* resign_admin_status is never called twice and is eventually called once,
\* whatever the broker sends or does not send.
C33_ResignCallbackCalledOnce ==
    \A k \in 1..MaxResigns :
        /\ [](ResignCalls(k) <= 1)
        /\ GivenCallback(k) ~> (ResignCalls(k) = 1)

(***************************************************************************)
(* Sensor commands on the owner's side: Client.subscribe_to_sensor_control *)
(* and TinyMQGUI.on_admin_notify_message handle a PUB on                   *)
(* "<client_id>/admin_notifications", TinyMQGUI.on_admin_notification an   *)
(* ADMIN_NOTIFY; DataAcquisitionService.send_command writes the line.      *)
(* SpecSensor: a connected owner whose handlers are those                  *)
(* _handle_connection_result has registered, up to MaxNotifications        *)
(* commands from the broker and up to MaxMarks calls of                    *)
(* mark_sensor_as_activable; the serial port opens and closes.             *)
(***************************************************************************)
MaxNotifications == 1

MaxMarks == 2

SampleSensors == {"fan", "led"}

\* f"{self.client_id}/admin_notifications"
AdminNotifyTopic == <<client_id, "/", "admin_notifications">>

\* the handlers _handle_connection_result leaves in topic_handlers: with the
\* DAS running, subscribe_to_sensor_control is called last and stores
\* on_admin_notify under the plain and the wrapped key; without it, the GUI's
\* on_admin_notify_message is stored under the plain key
ControlHandlers(das_is_running) ==
    IF das_is_running
    THEN {<<AdminNotifyTopic, "on_admin_notify">>,
          <<WrapTopic(AdminNotifyTopic), "on_admin_notify">>}
    ELSE {<<AdminNotifyTopic, "on_admin_notify_message">>}

\* the message field of an inbound PUB: a str holding the JSON of the
\* command, the command as a nested object, a str that is no JSON, or no
\* message field at all
MessageForms == {"json_str", "dict", "plain_str", "missing"}

\* type(message_obj) in the PUB branch: a str that parses is replaced by the
\* parsed value; data.get('message', b'') gives b'' for a missing field
PyType(form) ==
    CASE form = "json_str" -> "dict"
      [] form = "dict" -> "dict"
      [] form = "plain_str" -> "str"
      [] form = "missing" -> "bytes"

\* the line for the device: {"command": "set_" + sensor_name,
\* "value": 1 if active else 0}
EspCommand(sensor_name, active) ==
    [command |-> "set_" \o sensor_name, value |-> IF active THEN 1 ELSE 0]

\* DataAcquisitionService.send_command: the lines it writes
SendCommand(command) == IF das_running THEN <<command>> ELSE <<>>

\* json.loads(payload.decode('utf-8')) succeeds and gives the command: only
\* bytes have decode, and the only bytes a handler gets are b''
DecodesToCommand(form) == PyType(form) = "bytes" /\ form # "missing"

\* on_admin_notify of subscribe_to_sensor_control: the lines written
OnAdminNotify(form, command, sensor_name, active) ==
    IF DecodesToCommand(form) /\ command = "set_sensor"
    THEN SendCommand(EspCommand(sensor_name, active))
    ELSE <<>>

\* TinyMQGUI.on_admin_notify_message: the lines written
OnAdminNotifyMessage(form, command, sensor_name, active) ==
    IF /\ form # "missing"
       /\ DecodesToCommand(form)
       /\ command = "set_sensor"
       /\ das_running
    THEN SendCommand(EspCommand(sensor_name, active))
    ELSE <<>>

\* TinyMQGUI.on_admin_notification(data), data the JSON of an ADMIN_NOTIFY
OnAdminNotification(command, sensor_name, active) ==
    IF command = "set_sensor" /\ das_running
    THEN SendCommand(EspCommand(sensor_name, active))
    ELSE <<>>

SensorInit ==
    /\ CodecIdle /\ PublishIdle /\ AppIdle
    /\ connected = TRUE /\ socket = 1 /\ running = TRUE
    /\ read_thread = NoThread
    /\ recv_buffer = <<>> /\ temp_handlers = {}
    /\ requesting_admin_topics = FALSE
    /\ das_running \in BOOLEAN
    /\ topic_handlers = ControlHandlers(das_running)
    /\ admin_request_callback = FALSE
    /\ th = <<>>
    /\ next_sock = 1 /\ sock_open = {1}
    /\ sock_eof = {} /\ sock_in = <<>> /\ wire = <<>>
    /\ handled = <<>> /\ ack_sock = 1 /\ lost = FALSE /\ notified = NotifiedAt(connected) /\ sent = <<>>
    /\ api_log = <<>> /\ dispatch_log = <<>>
    /\ serial_out = <<>> /\ admin_notify_callback = TRUE /\ activable = {}

\* mark_sensor_as_activable(topic_name, sensor_name, flag): the mark is
\* published to the broker; nothing is kept on the client
MarkSensorAsActivable(sensor_name, flag, send_ok) ==
    /\ Len(api_log) < MaxMarks
    /\ LET sent_ok == connected /\ socket # 0 /\ send_ok
       IN  /\ IF connected THEN SendOutcome(send_ok)
              ELSE UNCHANGED <<running, sock_open, socket, connected, lost,
                                notified>>
           /\ activable' = IF ~sent_ok THEN activable
                           ELSE IF flag THEN activable \cup {sensor_name}
                           ELSE activable \ {sensor_name}
           /\ api_log' = Append(api_log,
                  [op |-> "mark_sensor_as_activable", sensor |-> sensor_name,
                   activable |-> flag, ok |-> sent_ok])
    /\ UNCHANGED <<read_thread, recv_buffer, temp_handlers,
                   requesting_admin_topics, topic_handlers,
                   admin_request_callback, th, next_sock, sock_eof, sock_in,
                   wire, handled, ack_sock, sent, dispatch_log, das_running,
                   serial_out, admin_notify_callback, codecVars, publishVars,
                   appVars>>

\* DataAcquisitionService.start and stop, or the device plugged and unplugged
DasToggle ==
    /\ das_running' = ~das_running
    /\ UNCHANGED <<engineVars, api_log, dispatch_log, serial_out,
                   admin_notify_callback, activable, codecVars, publishVars,
                   appVars>>

\* the reader dispatches a PUB whose topic is the notification topic, plain
\* or wrapped, and whose message is a command in one of the forms
HandleSensorPub(topic, form, command, sensor_name, active) ==
    /\ Len(dispatch_log) < MaxNotifications
    /\ LET key == HandlerKey(topic_handlers, topic)
           handler == IF key = <<>> THEN "none"
                      ELSE HandlerOf(topic_handlers, key[1])
           writes ==
               CASE handler = "on_admin_notify" ->
                        OnAdminNotify(form, command, sensor_name, active)
                 [] handler = "on_admin_notify_message" ->
                        OnAdminNotifyMessage(form, command, sensor_name, active)
                 [] OTHER -> <<>>
       IN  /\ serial_out' = serial_out \o writes
           /\ dispatch_log' = Append(dispatch_log,
                  [via |-> "PUB", form |-> form, command |-> command,
                   sensor_name |-> sensor_name, active |-> active,
                   handler |-> handler, das_open |-> das_running,
                   marked |-> sensor_name \in activable, writes |-> writes])
    /\ UNCHANGED <<engineVars, api_log, das_running, admin_notify_callback,
                   activable, codecVars, publishVars,
                   appVars>>

\* the reader dispatches an ADMIN_NOTIFY whose payload is the JSON of a
\* command: self._admin_notify_callback(notification_data)
HandleAdminNotify(command, sensor_name, active) ==
    /\ Len(dispatch_log) < MaxNotifications
    /\ LET writes == IF admin_notify_callback
                     THEN OnAdminNotification(command, sensor_name, active)
                     ELSE <<>>
       IN  /\ serial_out' = serial_out \o writes
           /\ dispatch_log' = Append(dispatch_log,
                  [via |-> "ADMIN_NOTIFY", form |-> "dict", command |-> command,
                   sensor_name |-> sensor_name, active |-> active,
                   handler |-> "on_admin_notification",
                   das_open |-> das_running,
                   marked |-> sensor_name \in activable, writes |-> writes])
    /\ UNCHANGED <<engineVars, api_log, das_running, admin_notify_callback,
                   activable, codecVars, publishVars,
                   appVars>>

SensorNext ==
    \/ \E sensor_name \in SampleSensors, flag \in BOOLEAN, send_ok \in BOOLEAN :
            MarkSensorAsActivable(sensor_name, flag, send_ok)
    \/ DasToggle
    \/ \E topic \in {AdminNotifyTopic, WrapTopic(AdminNotifyTopic)},
          form \in MessageForms, command \in {"set_sensor", "status"},
          sensor_name \in SampleSensors, active \in BOOLEAN :
            HandleSensorPub(topic, form, command, sensor_name, active)
    \/ \E command \in {"set_sensor", "status"},
          sensor_name \in SampleSensors, active \in BOOLEAN :
            HandleAdminNotify(command, sensor_name, active)

SpecSensor == SensorInit /\ [][SensorNext]_vars

\* C19 (the claim as stated): every command from the broker that led to a
\* write to the serial port named a sensor that was marked activable when
\* the command was handled.
C19_OnlyActivableForwarded ==
    \A i \in 1..Len(dispatch_log) :
        dispatch_log[i].writes # <<>> => dispatch_log[i].marked

\* C20 (the claim as stated): every PUB on the notification topic whose
\* message is a set_sensor command, handled while the serial port is open,
\* wrote exactly one line, set_<sensor_name> with value 1 or 0.
C20_PubCommandWritesOneLine ==
    \A i \in 1..Len(dispatch_log) :
        LET e == dispatch_log[i]
        IN  ( /\ e.via = "PUB"
              /\ e.form \in {"json_str", "dict"}
              /\ e.command = "set_sensor"
              /\ e.das_open )
                => e.writes = <<EspCommand(e.sensor_name, e.active)>>


(***************************************************************************)
(* SpecStore: Database.add_subscription and remove_subscription on the     *)
(* table subscriptions (id INTEGER PRIMARY KEY AUTOINCREMENT, topic,       *)
(* source_client_id, active); the table has no other key and no unique     *)
(* index.                                                                  *)
(***************************************************************************)
MaxRows == 3

SampleSubTopics == {"t1", "t2"}
SampleSources == {"c1", "c2"}

\* INSERT OR REPLACE INTO subscriptions (topic, source_client_id, active)
\* VALUES (?, ?, 1): the row gets the next id; it replaces a row only when
\* it collides with one on a key, and the only key is the id
InsertOrReplace(rows, topic, source_client_id) ==
    Append(rows, [id |-> Len(rows) + 1, topic |-> topic,
                  source_client_id |-> source_client_id, active |-> TRUE])

\* UPDATE subscriptions SET active = 0 WHERE topic = ? AND
\* source_client_id = ?
Deactivate(rows, topic, source_client_id) ==
    [i \in 1..Len(rows) |->
        IF rows[i].topic = topic /\ rows[i].source_client_id = source_client_id
        THEN [rows[i] EXCEPT !.active = FALSE]
        ELSE rows[i]]

\* SELECT id, topic, source_client_id FROM subscriptions WHERE active = 1
IsActive(row) == row.active
GetSubscriptions(rows) == SelectSeq(rows, IsActive)

AddSubscription(topic, source_client_id) ==
    /\ Len(subscriptions) < MaxRows
    /\ subscriptions' = InsertOrReplace(subscriptions, topic, source_client_id)
    /\ UNCHANGED nonStoreVars

RemoveSubscription(topic, source_client_id) ==
    /\ subscriptions' = Deactivate(subscriptions, topic, source_client_id)
    /\ UNCHANGED nonStoreVars

StoreInit == CodecIdle /\ EngineIdle /\ PublishIdle /\ SurfaceIdle

StoreNext ==
    \/ \E topic \in SampleSubTopics, source_client_id \in SampleSources :
            AddSubscription(topic, source_client_id)
    \/ \E topic \in SampleSubTopics, source_client_id \in SampleSources :
            RemoveSubscription(topic, source_client_id)

SpecStore == StoreInit /\ [][StoreNext]_vars

\* C27 (the claim as stated): the store holds at most one active entry per
\* (topic, source_client_id), so that adding a subscription that is there
\* already changes nothing in what get_subscriptions returns.
C27_OneActiveEntryPerPair ==
    LET active == GetSubscriptions(subscriptions)
    IN  \A i, j \in 1..Len(active) :
            (/\ active[i].topic = active[j].topic
             /\ active[i].source_client_id = active[j].source_client_id)
                => i = j


(***************************************************************************)
(* SpecDas: DataAcquisitionService.start and stop called by the owner, the *)
(* USB watcher (_usb_monitor), the serial reader (_read_serial_data) and   *)
(* the devices plugged and unplugged.  A step is one read or write of the  *)
(* service's fields; time.sleep and join(timeout=1.0) end after a while,   *)
(* whatever the other threads did meanwhile.                               *)
(***************************************************************************)
\* self.serial_port, and another device that can show up
SerialPort == "esp"
SamplePorts == {SerialPort, "other"}

\* a Thread object for a new thread: one that has not run or has ended
Spare(threads) == {t \in threads : das_th[t].pc \in {"unborn", "done"}}
NewThread(threads) == CHOOSE t \in Spare(threads) : TRUE

\* the thread goes on from _connect, which returned success
ConnectReturns(t, success) ==
    IF das_th[t].from = "start"
    THEN IF success THEN "started" ELSE "st_monitor"
    ELSE IF success THEN "w_connected" ELSE "w_failed"

\* start(): if self.running: return True; else self._connect()
DasStart ==
    /\ das_th[Owner].pc = "idle"
    /\ das_th' = [das_th EXCEPT ![Owner].pc =
                      IF das_running THEN "started" ELSE "c_check",
                                ![Owner].from = "start"]
    /\ UNCHANGED <<das_running, serial_conn, retry_running, ports, nonAcqVars>>

\* _connect: the port is not among comports(): return False
DasConnectCheck(t) ==
    /\ das_th[t].pc = "c_check"
    /\ das_th' = [das_th EXCEPT ![t].pc =
                      IF SerialPort \in ports THEN "c_open"
                      ELSE ConnectReturns(t, FALSE)]
    /\ UNCHANGED <<das_running, serial_conn, retry_running, ports, nonAcqVars>>

\* _connect: self.serial_conn = serial.Serial(...), which raises when the
\* device is gone; then time.sleep(2)
DasConnectOpen(t) ==
    /\ das_th[t].pc = "c_open"
    /\ IF SerialPort \in ports
       THEN /\ serial_conn' = "open"
            /\ das_th' = [das_th EXCEPT ![t].pc = "c_run"]
       ELSE /\ serial_conn' = serial_conn
            /\ das_th' = [das_th EXCEPT ![t].pc = ConnectReturns(t, FALSE)]
    /\ UNCHANGED <<das_running, retry_running, ports, nonAcqVars>>

\* _connect: self.running = True; self.thread = Thread(...); start; return
\* True
DasConnectRun(t) ==
    /\ das_th[t].pc = "c_run"
    /\ Spare(SerialReaders) # {}
    /\ das_running' = TRUE
    /\ das_th' = [das_th EXCEPT ![t].pc = ConnectReturns(t, TRUE),
                                ![NewThread(SerialReaders)] = DasAt("s_loop")]
    /\ UNCHANGED <<serial_conn, retry_running, ports, nonAcqVars>>

\* _start_usb_monitor: nothing when self.retry_running; else set it and
\* start the watcher
StartUsbMonitor(t, next_pc) ==
    IF retry_running
    THEN /\ das_th' = [das_th EXCEPT ![t].pc = next_pc]
         /\ retry_running' = retry_running
    ELSE /\ Spare(Watchers) # {}
         /\ retry_running' = TRUE
         /\ das_th' = [das_th EXCEPT ![t].pc = next_pc,
                                     ![NewThread(Watchers)] = DasAt("w_init")]

\* start(): _connect failed and retry is set: self._start_usb_monitor()
DasStartMonitor ==
    /\ das_th[Owner].pc = "st_monitor"
    /\ StartUsbMonitor(Owner, "started")
    /\ UNCHANGED <<das_running, serial_conn, ports, nonAcqVars>>

\* _usb_monitor: last_ports = set(comports())
UsbMonitorInit(w) ==
    /\ das_th[w].pc = "w_init"
    /\ das_th' = [das_th EXCEPT ![w].pc = "w_loop", ![w].last_ports = ports]
    /\ UNCHANGED <<das_running, serial_conn, retry_running, ports, nonAcqVars>>

\* _usb_monitor: while self.retry_running and not self.running
UsbMonitorLoop(w) ==
    /\ das_th[w].pc = "w_loop"
    /\ das_th' = [das_th EXCEPT ![w].pc =
                      IF retry_running /\ ~das_running THEN "w_poll"
                      ELSE "w_end"]
    /\ UNCHANGED <<das_running, serial_conn, retry_running, ports, nonAcqVars>>

\* _usb_monitor: current_ports = set(comports()); new_ports = current_ports
\* - last_ports; with a new port call _connect, else last_ports =
\* current_ports and sleep a second
UsbMonitorPoll(w) ==
    /\ das_th[w].pc = "w_poll"
    /\ LET new_ports == ports \ das_th[w].last_ports
       IN  das_th' = [das_th EXCEPT
               ![w].current_ports = ports,
               ![w].from = "monitor",
               ![w].pc = IF new_ports # {} THEN "c_check" ELSE "w_loop",
               ![w].last_ports = IF new_ports # {} THEN @ ELSE ports]
    /\ UNCHANGED <<das_running, serial_conn, retry_running, ports, nonAcqVars>>

\* _usb_monitor: _connect returned False: last_ports = current_ports, sleep
UsbMonitorFailed(w) ==
    /\ das_th[w].pc = "w_failed"
    /\ das_th' = [das_th EXCEPT ![w].pc = "w_loop",
                                ![w].last_ports = das_th[w].current_ports]
    /\ UNCHANGED <<das_running, serial_conn, retry_running, ports, nonAcqVars>>

\* _usb_monitor: _connect returned True: self.retry_running = False; break
UsbMonitorConnected(w) ==
    /\ das_th[w].pc = "w_connected"
    /\ retry_running' = FALSE
    /\ das_th' = [das_th EXCEPT ![w].pc = "w_end"]
    /\ UNCHANGED <<das_running, serial_conn, ports, nonAcqVars>>

\* _usb_monitor: after the loop, self.retry_running = False
UsbMonitorEnd(w) ==
    /\ das_th[w].pc = "w_end"
    /\ retry_running' = FALSE
    /\ das_th' = [das_th EXCEPT ![w].pc = "done"]
    /\ UNCHANGED <<das_running, serial_conn, ports, nonAcqVars>>

\* _read_serial_data: while self.running
ReadSerialLoop(r) ==
    /\ das_th[r].pc = "s_loop"
    /\ das_th' = [das_th EXCEPT ![r].pc =
                      IF das_running THEN "s_check" ELSE "done"]
    /\ UNCHANGED <<das_running, serial_conn, retry_running, ports, nonAcqVars>>

\* _read_serial_data: if not self.serial_conn or not self.serial_conn.is_open:
\* sleep and continue
ReadSerialCheck(r) ==
    /\ das_th[r].pc = "s_check"
    /\ das_th' = [das_th EXCEPT ![r].pc =
                      IF serial_conn \in {"open", "dead"} THEN "s_read"
                      ELSE "s_loop"]
    /\ UNCHANGED <<das_running, serial_conn, retry_running, ports, nonAcqVars>>

\* _read_serial_data: self.serial_conn.read(1): a byte or nothing from a
\* live port; SerialException from a port that is closed or whose device is
\* gone; AttributeError, which ends the thread, when serial_conn is None
ReadSerialRead(r) ==
    /\ das_th[r].pc = "s_read"
    /\ das_th' = [das_th EXCEPT ![r].pc =
                      CASE serial_conn = "open" -> "s_loop"
                        [] serial_conn = "none" -> "done"
                        [] OTHER -> "e_close"]
    /\ UNCHANGED <<das_running, serial_conn, retry_running, ports, nonAcqVars>>

\* the error handler: if self.serial_conn: close it; self.serial_conn = None
ReadSerialErrorClose(r) ==
    /\ das_th[r].pc = "e_close"
    /\ serial_conn' = "none"
    /\ das_th' = [das_th EXCEPT ![r].pc = "e_run", ![r].erred = TRUE]
    /\ UNCHANGED <<das_running, retry_running, ports, nonAcqVars>>

\* the error handler: self.running = False
ReadSerialErrorStop(r) ==
    /\ das_th[r].pc = "e_run"
    /\ das_running' = FALSE
    /\ das_th' = [das_th EXCEPT ![r].pc = "e_monitor"]
    /\ UNCHANGED <<serial_conn, retry_running, ports, nonAcqVars>>

\* the error handler: if not self.retry_running: self._start_usb_monitor();
\* break
ReadSerialErrorMonitor(r) ==
    /\ das_th[r].pc = "e_monitor"
    /\ StartUsbMonitor(r, "done")
    /\ UNCHANGED <<das_running, serial_conn, ports, nonAcqVars>>

\* stop(): self.retry_running = False; retry_thread.join(timeout=1.0)
DasStop ==
    /\ das_th[Owner].pc \in {"idle", "started"}
    /\ retry_running' = FALSE
    /\ das_th' = [das_th EXCEPT ![Owner].pc = "sp_check"]
    /\ UNCHANGED <<das_running, serial_conn, ports, nonAcqVars>>

\* stop(): if not self.running: return; else self.running = False and
\* thread.join(timeout=1.0)
DasStopRunning ==
    /\ das_th[Owner].pc = "sp_check"
    /\ das_running' = FALSE
    /\ das_th' = [das_th EXCEPT ![Owner].pc =
                      IF das_running THEN "sp_close" ELSE "stopped"]
    /\ UNCHANGED <<serial_conn, retry_running, ports, nonAcqVars>>

\* stop(): if self.serial_conn: self.serial_conn.close()
DasStopClose ==
    /\ das_th[Owner].pc = "sp_close"
    /\ serial_conn' = IF serial_conn = "none" THEN "none" ELSE "closed"
    /\ das_th' = [das_th EXCEPT ![Owner].pc =
                      IF serial_conn = "none" THEN "stopped" ELSE "sp_none"]
    /\ UNCHANGED <<das_running, retry_running, ports, nonAcqVars>>

\* stop(): self.serial_conn = None; return
DasStopNone ==
    /\ das_th[Owner].pc = "sp_none"
    /\ serial_conn' = "none"
    /\ das_th' = [das_th EXCEPT ![Owner].pc = "stopped"]
    /\ UNCHANGED <<das_running, retry_running, ports, nonAcqVars>>

\* a device is plugged in
Plug(device) ==
    /\ device \notin ports
    /\ ports' = ports \cup {device}
    /\ UNCHANGED <<das_running, serial_conn, retry_running, das_th, nonAcqVars>>

\* a device is unplugged; a connection open on it is dead from then on
Unplug(device) ==
    /\ device \in ports
    /\ ports' = ports \ {device}
    /\ serial_conn' = IF device = SerialPort /\ serial_conn = "open"
                      THEN "dead" ELSE serial_conn
    /\ UNCHANGED <<das_running, retry_running, das_th, nonAcqVars>>

DasInit ==
    /\ CodecIdle /\ EngineIdle /\ PublishIdle /\ SurfaceIdle

DasNext ==
    \/ DasStart
    \/ \E t \in DasThreads : DasConnectCheck(t)
    \/ \E t \in DasThreads : DasConnectOpen(t)
    \/ \E t \in DasThreads : DasConnectRun(t)
    \/ DasStartMonitor
    \/ \E w \in Watchers : UsbMonitorInit(w)
    \/ \E w \in Watchers : UsbMonitorLoop(w)
    \/ \E w \in Watchers : UsbMonitorPoll(w)
    \/ \E w \in Watchers : UsbMonitorFailed(w)
    \/ \E w \in Watchers : UsbMonitorConnected(w)
    \/ \E w \in Watchers : UsbMonitorEnd(w)
    \/ \E r \in SerialReaders : ReadSerialLoop(r)
    \/ \E r \in SerialReaders : ReadSerialCheck(r)
    \/ \E r \in SerialReaders : ReadSerialRead(r)
    \/ \E r \in SerialReaders : ReadSerialErrorClose(r)
    \/ \E r \in SerialReaders : ReadSerialErrorStop(r)
    \/ \E r \in SerialReaders : ReadSerialErrorMonitor(r)
    \/ DasStop
    \/ DasStopRunning
    \/ DasStopClose
    \/ DasStopNone
    \/ \E device \in SamplePorts : Plug(device)
    \/ \E device \in SamplePorts : Unplug(device)

SpecDas == DasInit /\ [][DasNext]_vars

\* a step of the thread that is not the start of a call by the owner
DasThreadStep(t) ==
    \/ DasConnectCheck(t) \/ DasConnectOpen(t) \/ DasConnectRun(t)
    \/ (t = Owner /\ (DasStartMonitor \/ DasStopRunning \/ DasStopClose
                      \/ DasStopNone))
    \/ (t \in Watchers /\ (\/ UsbMonitorInit(t) \/ UsbMonitorLoop(t)
                           \/ UsbMonitorPoll(t) \/ UsbMonitorFailed(t)
                           \/ UsbMonitorConnected(t) \/ UsbMonitorEnd(t)))
    \/ (t \in SerialReaders /\ (\/ ReadSerialLoop(t) \/ ReadSerialCheck(t)
                                \/ ReadSerialRead(t) \/ ReadSerialErrorClose(t)
                                \/ ReadSerialErrorStop(t)
                                \/ ReadSerialErrorMonitor(t)))

\* every thread of the service that can take a step takes one in the end;
\* nothing is asked of the owner's calls nor of the devices
SpecDasFair == SpecDas /\ \A t \in DasThreads : WF_vars(DasThreadStep(t))

\* a reader went through the whole of the serial error handler
ReaderErred == \E r \in SerialReaders : das_th[r].pc = "done" /\ das_th[r].erred

\* the owner has called stop()
StopCalled == das_th[Owner].pc \in {"sp_check", "sp_close", "sp_none", "stopped"}

\* C24 (the claim as stated): once the reader has been through a serial
\* error, if the configured port is present then, unless it is unplugged
\* again or the owner stops the service, the service gets running again.
C24_ReplugRestartsReader ==
    (ReaderErred /\ SerialPort \in ports /\ ~StopCalled)
        ~> (das_running \/ SerialPort \notin ports \/ StopCalled)

\* stop() has returned
StopReturned == das_th[Owner].pc = "stopped"

\* C25 (the claim as stated): once stop() has returned no thread sets
\* running to true, opens the port or starts a watcher.
C25_StaysStopped ==
    [][StopReturned =>
          /\ (das_running' => das_running)
          /\ (serial_conn' = "open" => serial_conn = "open")
          /\ (retry_running' => retry_running)]_vars


(***************************************************************************)
(* SpecLines: the serial reader takes complete lines, one byte at a time,  *)
(* and hands each to _process_data.  A line is given by what json.loads    *)
(* makes of it (form), the elements of an array, and whether all its       *)
(* characters are ASCII.                                                   *)
(***************************************************************************)
MaxLines == 2

\* an element of an array: an object with or without "name" and "value";
\* the value is a number or a list
Element(has_name, has_value, name, value) ==
    [has_name |-> has_name, has_value |-> has_value, name |-> name,
     value |-> value]

Line(form, elements, ascii) ==
    [form |-> form, elements |-> elements, ascii |-> ascii]

SampleLines ==
    { Line("array", <<Element(TRUE, TRUE, "temp", "21"),
                      Element(TRUE, TRUE, "hum", "40")>>, TRUE),
      Line("array", <<Element(TRUE, TRUE, "temp", "21"),
                      Element(TRUE, FALSE, "hum", "")>>, TRUE),
      Line("array", <<Element(TRUE, TRUE, "temp", "list"),
                      Element(TRUE, TRUE, "hum", "40")>>, TRUE),
      Line("array", <<Element(TRUE, TRUE, "temp", "21")>>, FALSE),
      Line("array", <<>>, TRUE),
      Line("result", <<>>, TRUE),
      Line("error", <<>>, TRUE),
      Line("object", <<>>, TRUE),
      Line("text", <<>>, TRUE),
      Line("text", <<>>, FALSE) }

SampleCallbacks == {<<>>, <<"show">>, <<"show", "raises">>}

\* _read_serial_data: byte.decode('utf-8') on one byte raises
\* UnicodeDecodeError for every byte of a character that is not ASCII, and
\* the handler empties the buffer: what reaches _process_data is the rest of
\* the line after the last such byte, which starts inside a string and is
\* not JSON
DecodedLine(line) ==
    IF line.ascii THEN line ELSE Line("text", <<>>, TRUE)

\* sqlite3 binds numbers and strings; it raises on a list
Binds(value) == value # "list"

\* _process_data: isinstance(reading, dict) and "name" in reading and
\* "value" in reading
IsReading(element) == element.has_name /\ element.has_value

\* _store_sensor_reading: add_reading, then every callback in order; when
\* add_reading raises, the outer handler is reached and no callback is called
StoreSensorReading(element, callbacks) ==
    IF Binds(element.value)
    THEN [rows |-> <<[name |-> element.name, value |-> element.value]>>,
          calls |-> [k \in 1..Len(callbacks) |->
                        <<callbacks[k], element.name, element.value>>]]
    ELSE [rows |-> <<>>, calls |-> <<>>]

\* _process_data on the elements of an array: count grows for each reading,
\* stored or not
RECURSIVE ProcessReadings(_, _)
ProcessReadings(elements, callbacks) ==
    IF elements = <<>>
    THEN [none |-> FALSE, count |-> 0, rows |-> <<>>, calls |-> <<>>]
    ELSE LET rest == ProcessReadings(Tail(elements), callbacks)
             first == Head(elements)
             stored == StoreSensorReading(first, callbacks)
         IN  IF IsReading(first)
             THEN [none |-> FALSE, count |-> rest.count + 1,
                   rows |-> stored.rows \o rest.rows,
                   calls |-> stored.calls \o rest.calls]
             ELSE rest

\* _process_data: 0 for a result, an error and what is not JSON; the count
\* for an array; None (no return is reached) for any other JSON value
ProcessData(line, callbacks) ==
    CASE line.form = "array" -> ProcessReadings(line.elements, callbacks)
      [] line.form \in {"result", "error", "text"} ->
            [none |-> FALSE, count |-> 0, rows |-> <<>>, calls |-> <<>>]
      [] OTHER -> [none |-> TRUE, count |-> 0, rows |-> <<>>, calls |-> <<>>]

\* the reader has a complete line: data_read = self._process_data(buffer);
\* if data_read > 0: self.total_readings_received += data_read.  None > 0
\* raises TypeError, which ends the reader
ReadLine(line) ==
    /\ Len(line_log) < MaxLines
    /\ ~reader_ended
    /\ LET out == ProcessData(DecodedLine(line), on_data_received_callbacks)
       IN  /\ readings' = readings \o out.rows
           /\ reader_ended' = out.none
           /\ total_readings_received' = total_readings_received + out.count
           /\ line_log' = Append(line_log,
                  [line |-> line, callbacks |-> on_data_received_callbacks,
                   rows |-> out.rows, calls |-> out.calls,
                   received |-> total_readings_received'
                                    - total_readings_received])
    /\ UNCHANGED <<on_data_received_callbacks, nonLineVars>>

LinesInit ==
    /\ CodecIdle /\ EngineIdle /\ PublishIdle
    /\ api_log = <<>> /\ dispatch_log = <<>>
    /\ das_running = TRUE /\ serial_out = <<>>
    /\ admin_notify_callback = FALSE /\ activable = {}
    /\ StoreIdle /\ AcqIdle /\ OrchIdle /\ ResignIdle /\ StepIdle
    /\ readings = <<>> /\ total_readings_received = 0
    /\ reader_ended = FALSE /\ line_log = <<>>
    /\ on_data_received_callbacks \in SampleCallbacks

LinesNext == \E line \in SampleLines : ReadLine(line)

SpecLines == LinesInit /\ [][LinesNext]_vars

\* the readings of an array line, in array order
RECURSIVE ReadingsOf(_)
ReadingsOf(elements) ==
    IF elements = <<>> THEN <<>>
    ELSE (IF IsReading(Head(elements)) THEN <<Head(elements)>> ELSE <<>>)
            \o ReadingsOf(Tail(elements))

\* each reading once to every callback, reading by reading
RECURSIVE DeliveriesOf(_, _)
DeliveriesOf(elements, callbacks) ==
    IF elements = <<>> THEN <<>>
    ELSE [k \in 1..Len(callbacks) |->
              <<callbacks[k], Head(elements).name, Head(elements).value>>]
            \o DeliveriesOf(Tail(elements), callbacks)

\* C26 (the claim as stated): a line that is a JSON array has each of its
\* readings stored and then handed once to every callback, in array order,
\* and the count of readings received grows by their number; a result, an
\* error and a line that is not JSON store nothing and call no callback.
C26_LineStoredAndDelivered ==
    \A i \in 1..Len(line_log) :
        LET e == line_log[i]
            expected == ReadingsOf(e.line.elements)
        IN  /\ e.line.form = "array" =>
                  /\ e.rows = [k \in 1..Len(expected) |->
                                  [name |-> expected[k].name,
                                   value |-> expected[k].value]]
                  /\ e.calls = DeliveriesOf(expected, e.callbacks)
                  /\ e.received = Len(expected)
            /\ e.line.form \in {"result", "error", "text"} =>
                  e.rows = <<>> /\ e.calls = <<>>


(***************************************************************************)
(* SpecOrch: a front end (gui.py or cli.py) over the topics of the store:  *)
(* connect and disconnect, topic create, publish toggle, sensors added to  *)
(* and removed from a topic, and sensor events handed to the callbacks of  *)
(* the acquisition service.                                                *)
(***************************************************************************)
MaxCallbacks == 2

\* topic names; get_topic takes a name that int() accepts for an id
SampleStoreTopics == {"env", "2"}
IntValue == [name \in {"1", "2"} |-> IF name = "1" THEN 1 ELSE 2]

SampleEventSensors == {"temp", "hum"}

NoTopic == [id |-> 0, name |-> "", publish |-> FALSE]

\* SELECT id, name, publish FROM topics WHERE name = ?
TopicNamed(rows, name) ==
    IF \E k \in 1..Len(rows) : rows[k].name = name
    THEN rows[CHOOSE k \in 1..Len(rows) : rows[k].name = name]
    ELSE NoTopic

\* Database.get_topic: try int(topic_id_or_name) and select by id; on
\* ValueError select by name
GetTopic(rows, topic_id_or_name) ==
    IF topic_id_or_name \in DOMAIN IntValue
    THEN IF IntValue[topic_id_or_name] \in 1..Len(rows)
         THEN rows[IntValue[topic_id_or_name]] ELSE NoTopic
    ELSE TopicNamed(rows, topic_id_or_name)

\* Database.set_topic_publish: UPDATE topics SET publish = ? WHERE name = ?
SetTopicPublish(rows, name, publish) ==
    [k \in 1..Len(rows) |->
        IF rows[k].name = name THEN [rows[k] EXCEPT !.publish = publish]
        ELSE rows[k]]

\* Database.create_topic: INSERT OR IGNORE; when the name is there already,
\* update its publish flag
CreateTopic(rows, name, publish) ==
    IF TopicNamed(rows, name) # NoTopic THEN SetTopicPublish(rows, name, publish)
    ELSE Append(rows, [id |-> Len(rows) + 1, name |-> name,
                       publish |-> publish])

\* Database.get_published_topics: SELECT id, name FROM topics WHERE publish = 1
IsPublished(row) == row.publish
GetPublishedTopics(rows) == SelectSeq(rows, IsPublished)

\* Database.get_topic_sensors: the sensors joined to the topic of that name
GetTopicSensors(pairs, topic_name) ==
    {pair[2] : pair \in {q \in pairs : q[1] = topic_name}}

\* the closure publish_callback over (topic_name, sensor_names)
PublishCallback(topic_name, sensor_names) ==
    [topic_name |-> topic_name, sensor_names |-> sensor_names]

\* gui.py, the loop of _setup_topic_publishing after clear_callbacks(): one
\* callback for every published topic that has sensors
RECURSIVE GuiInstall(_, _)
GuiInstall(published, pairs) ==
    IF published = <<>> THEN <<>>
    ELSE LET sensors == GetTopicSensors(pairs, Head(published).name)
         IN  (IF sensors = {} THEN <<>>
              ELSE <<PublishCallback(Head(published).name, sensors)>>)
                 \o GuiInstall(Tail(published), pairs)

\* cli.py, _setup_topic_publishing(topic_name): nothing without sensors;
\* else one more callback, with no look at those that are there
CliSetup(callbacks, pairs, topic_name) ==
    LET sensors == GetTopicSensors(pairs, topic_name)
    IN  IF sensors = {} THEN callbacks
        ELSE Append(callbacks, PublishCallback(topic_name, sensors))

\* cli.py do_connect: _setup_topic_publishing for every published topic
RECURSIVE CliSetupAll(_, _, _)
CliSetupAll(callbacks, pairs, published) ==
    IF published = <<>> THEN callbacks
    ELSE CliSetupAll(CliSetup(callbacks, pairs, Head(published).name), pairs,
                     Tail(published))

\* _setup_topic_publishing(topic_name) of the front end, the client connected
SetupTopicPublishing(callbacks, rows, pairs, topic_name) ==
    IF front = "gui" THEN GuiInstall(GetPublishedTopics(rows), pairs)
    ELSE CliSetup(callbacks, pairs, topic_name)

\* after connect: for topic_info in get_published_topics():
\* self._setup_topic_publishing(topic_info["name"])
SetupAfterConnect(callbacks, rows, pairs) ==
    IF GetPublishedTopics(rows) = <<>> THEN callbacks
    ELSE IF front = "gui" THEN GuiInstall(GetPublishedTopics(rows), pairs)
    ELSE CliSetupAll(callbacks, pairs, GetPublishedTopics(rows))

\* publish_callback(sensor_name, data): the number of calls of
\* client.publish(topic_name, ...)
PublishCalls(callback, rows, is_connected, sensor_name) ==
    LET current_topic_info == GetTopic(rows, callback.topic_name)
    IN  IF current_topic_info = NoTopic \/ ~current_topic_info.publish THEN 0
        ELSE IF sensor_name \in callback.sensor_names /\ is_connected THEN 1
        ELSE 0

\* the front end connects and the CONNACK has come
OrchConnect ==
    /\ ~connected
    /\ connected' = TRUE
    /\ on_data_received_callbacks' =
           SetupAfterConnect(on_data_received_callbacks, topics, topic_sensors)
    /\ Len(on_data_received_callbacks') <= MaxCallbacks
    /\ orch_ran' = (GetPublishedTopics(topics) # <<>>)
    /\ last_op' = "connect" /\ event_log' = <<>>
    /\ UNCHANGED <<front, topics, topic_sensors, nonOrchVars>>

\* the connection is lost or closed
OrchDisconnect ==
    /\ connected
    /\ connected' = FALSE
    /\ orch_ran' = FALSE /\ last_op' = "disconnect" /\ event_log' = <<>>
    /\ UNCHANGED <<front, topics, topic_sensors, on_data_received_callbacks,
                   nonOrchVars>>

\* gui.py on_create (connected only), cli.py do_create_topic:
\* self.db.create_topic(name, publish)
OrchCreateTopic(name, publish) ==
    /\ front = "gui" => connected
    /\ topics' = CreateTopic(topics, name, publish)
    /\ orch_ran' = FALSE /\ last_op' = "create" /\ event_log' = <<>>
    /\ UNCHANGED <<front, topic_sensors, on_data_received_callbacks, connected,
                   nonOrchVars>>

\* gui.py toggle_topic_publish (connected only): set_topic_publish; cli.py
\* do_publish_topic: set_topic_publish, then _setup_topic_publishing when
\* publish is set and the client is connected
OrchTogglePublish(id, publish) ==
    /\ id \in 1..Len(topics)
    /\ front = "gui" => connected
    /\ topics[id].publish # publish
    /\ topics' = SetTopicPublish(topics, topics[id].name, publish)
    /\ LET runs == front = "cli" /\ publish /\ connected
       IN  /\ on_data_received_callbacks' =
                  IF runs
                  THEN CliSetup(on_data_received_callbacks, topic_sensors,
                                topics[id].name)
                  ELSE on_data_received_callbacks
           /\ orch_ran' = runs
    /\ Len(on_data_received_callbacks') <= MaxCallbacks
    /\ last_op' = "toggle" /\ event_log' = <<>>
    /\ UNCHANGED <<front, topic_sensors, connected, nonOrchVars>>

\* the sensors of a topic change: gui.py then calls
\* _setup_topic_publishing, which returns at once when the client is not
\* connected; cli.py (do_add_sensor, do_remove_sensor) changes the store only
OrchSensors(id, pairs, op) ==
    /\ id \in 1..Len(topics)
    /\ topic_sensors' = pairs
    /\ LET runs == front = "gui" /\ connected
       IN  /\ on_data_received_callbacks' =
                  IF runs
                  THEN SetupTopicPublishing(on_data_received_callbacks, topics,
                                            pairs, topics[id].name)
                  ELSE on_data_received_callbacks
           /\ orch_ran' = runs
    /\ last_op' = op /\ event_log' = <<>>
    /\ UNCHANGED <<front, topics, connected, nonOrchVars>>

\* add_sensor_to_topic for a sensor that the topic has not
OrchAddSensor(id, sensor_name) ==
    /\ id \in 1..Len(topics)
    /\ <<topics[id].name, sensor_name>> \notin topic_sensors
    /\ OrchSensors(id, topic_sensors \cup {<<topics[id].name, sensor_name>>},
                   "add_sensor")

\* remove_sensor_from_topic for a sensor that the topic has
OrchRemoveSensor(id, sensor_name) ==
    /\ id \in 1..Len(topics)
    /\ <<topics[id].name, sensor_name>> \in topic_sensors
    /\ OrchSensors(id, topic_sensors \ {<<topics[id].name, sensor_name>>},
                   "remove_sensor")

\* _store_sensor_reading hands a reading of the sensor to every callback
SensorEvent(sensor_name) ==
    /\ event_log' =
           [k \in 1..Len(on_data_received_callbacks) |->
               [callback |-> on_data_received_callbacks[k],
                sensor_name |-> sensor_name,
                publish_flag |->
                    TopicNamed(topics,
                        on_data_received_callbacks[k].topic_name).publish,
                publishes |-> PublishCalls(on_data_received_callbacks[k],
                                           topics, connected, sensor_name)]]
    /\ orch_ran' = FALSE /\ last_op' = "event"
    /\ UNCHANGED <<front, topics, topic_sensors, on_data_received_callbacks,
                   connected, nonOrchVars>>

OrchInit ==
    /\ CodecIdle /\ EngineIdle /\ PublishIdle
    /\ api_log = <<>> /\ dispatch_log = <<>>
    /\ das_running = TRUE /\ serial_out = <<>>
    /\ admin_notify_callback = FALSE /\ activable = {}
    /\ StoreIdle /\ AcqIdle /\ LinesIdle /\ ResignIdle /\ StepIdle
    /\ front \in {"gui", "cli"}
    /\ topics = <<>> /\ topic_sensors = {}
    /\ orch_ran = FALSE /\ last_op = "" /\ event_log = <<>>

OrchNext ==
    \/ OrchConnect
    \/ OrchDisconnect
    \/ \E name \in SampleStoreTopics, publish \in BOOLEAN :
            OrchCreateTopic(name, publish)
    \/ \E id \in 1..2, publish \in BOOLEAN : OrchTogglePublish(id, publish)
    \/ \E id \in 1..2, sensor_name \in SampleEventSensors :
            OrchAddSensor(id, sensor_name)
    \/ \E id \in 1..2, sensor_name \in SampleEventSensors :
            OrchRemoveSensor(id, sensor_name)
    \/ \E sensor_name \in SampleEventSensors : SensorEvent(sensor_name)

SpecOrch == OrchInit /\ [][OrchNext]_vars

\* C21 (the claim as stated): on a sensor event a callback bound to a topic
\* and a set of sensors calls publish once when the topic's publish flag in
\* the store is set and the sensor is in the set, and not at all otherwise.
C21_CallbackFollowsPublishFlag ==
    \A k \in 1..Len(event_log) :
        event_log[k].publishes =
            IF /\ event_log[k].publish_flag
               /\ event_log[k].sensor_name \in event_log[k].callback.sensor_names
            THEN 1 ELSE 0

\* the callbacks held for the topic of that name
CallbacksFor(topic_name) ==
    {k \in 1..Len(on_data_received_callbacks) :
        on_data_received_callbacks[k].topic_name = topic_name}

\* C22 (the claim as stated): after a run of _setup_topic_publishing the
\* acquisition service holds one publish callback for every published topic
\* (that has sensors) and none for a topic that is not published.
C22_OneCallbackPerPublishedTopic ==
    orch_ran =>
        \A id \in 1..Len(topics) :
            /\ Cardinality(CallbacksFor(topics[id].name)) <= 1
            /\ ~topics[id].publish => CallbacksFor(topics[id].name) = {}
            /\ (/\ topics[id].publish
                /\ GetTopicSensors(topic_sensors, topics[id].name) # {})
                  => CallbacksFor(topics[id].name) # {}

\* C23 (the claim as stated): once a connect, a topic create, a publish
\* toggle or a change of a topic's sensors has completed with the client
\* connected, every published topic that has sensors has a callback bound to
\* its current set of sensors.
C23_CallbacksMatchStore ==
    (/\ connected
     /\ last_op \in {"connect", "create", "toggle", "add_sensor",
                     "remove_sensor"})
        => \A id \in 1..Len(topics) :
              (/\ topics[id].publish
               /\ GetTopicSensors(topic_sensors, topics[id].name) # {})
                 => \E k \in CallbacksFor(topics[id].name) :
                       on_data_received_callbacks[k].sensor_names =
                           GetTopicSensors(topic_sensors, topics[id].name)


\* the watcher thread has been started and has not ended
WatcherAlive(w) == das_th[w].pc \notin {"unborn", "done"}

\* a reader is inside the serial error handler
InErrorHandler ==
    \E r \in SerialReaders : das_th[r].pc \in {"e_close", "e_run", "e_monitor"}

\* C39 (the claim as stated): as long as stop() has not been called, at most
\* one watcher is alive, and when start() has returned, the service is not
\* running and no reader is inside the error handler, a watcher is alive.
C39_WatcherWhileNotRunning ==
    ~StopCalled =>
        /\ Cardinality({w \in Watchers : WatcherAlive(w)}) <= 1
        /\ (das_th[Owner].pc = "started" /\ ~das_running /\ ~InErrorHandler)
              => \E w \in Watchers : WatcherAlive(w)

(***************************************************************************)
(* SpecOwnerCallback: the graphical front end after start_das, which       *)
(* registers self.on_sensor_data with the acquisition service, under the   *)
(* operations of SpecOrch.                                                 *)
(***************************************************************************)
\* the bound method self.on_sensor_data, which refreshes the display and
\* publishes to no topic
OnSensorData == PublishCallback("", {})

OwnerCallbackInit ==
    /\ CodecIdle /\ EngineIdle /\ PublishIdle
    /\ api_log = <<>> /\ dispatch_log = <<>>
    /\ das_running = TRUE /\ serial_out = <<>>
    /\ admin_notify_callback = FALSE /\ activable = {}
    /\ StoreIdle /\ AcqIdle /\ ResignIdle /\ StepIdle
    /\ readings = <<>> /\ total_readings_received = 0
    /\ reader_ended = FALSE /\ line_log = <<>>
    /\ on_data_received_callbacks = <<OnSensorData>>
    /\ front = "gui"
    /\ topics = <<>> /\ topic_sensors = {}
    /\ orch_ran = FALSE /\ last_op = "" /\ event_log = <<>>

SpecOwnerCallback == OwnerCallbackInit /\ [][OrchNext]_vars

\* C34 (the claim as stated): whatever the front end has done,
\* self.on_sensor_data is in the callback list of the service exactly once.
C34_OwnerCallbackStaysRegistered ==
    Cardinality({k \in 1..Len(on_data_received_callbacks) :
                    on_data_received_callbacks[k] = OnSensorData}) = 1

(***************************************************************************)
(* SpecFanout: the loop of _store_sensor_reading over                      *)
(* self.on_data_received_callbacks taken one callback at a time on the     *)
(* serial reader, while another thread calls add_data_callback and         *)
(* clear_callbacks.  The loop is `for callback in <the list itself>`: the  *)
(* iterator keeps an index into the list and ends when the index reaches   *)
(* the length the list has then.                                           *)
(***************************************************************************)
MaxEvents == 2

MaxRegistered == 3

FanoutCallbacks == {"show", "publish", "log"}

\* the elements of a list
Elements(list) == {list[k] : k \in 1..Len(list)}

FanoutInit ==
    /\ CodecIdle /\ EngineIdle /\ PublishIdle
    /\ api_log = <<>> /\ dispatch_log = <<>>
    /\ das_running = TRUE /\ serial_out = <<>>
    /\ admin_notify_callback = FALSE /\ activable = {}
    /\ StoreIdle /\ AcqIdle /\ OrchIdle /\ ResignIdle
    /\ readings = <<>> /\ total_readings_received = 0
    /\ reader_ended = FALSE /\ line_log = <<>>
    /\ on_data_received_callbacks \in {<<"show">>, <<"show", "publish">>}
    /\ handling = NotHandling /\ admin_result_callback = FALSE
    /\ fanout = NoFanout

\* what the steps of the loop and the calls on the list leave alone
nonFanoutVars == <<codecVars, engineVars, publishVars, api_log, dispatch_log,
                   dasVars, storeVars, acqVars, orchVars, resignVars,
                   readings, total_readings_received, reader_ended, line_log,
                   handling, admin_result_callback>>

\* _store_sensor_reading reaches its loop: iter(self.on_data_received_callbacks)
FanoutBegin ==
    /\ ~fanout.active
    /\ fanout.event < MaxEvents
    /\ fanout' = [active |-> TRUE, event |-> fanout.event + 1, index |-> 0,
                  registered |-> Elements(on_data_received_callbacks),
                  called |-> <<>>]
    /\ UNCHANGED <<on_data_received_callbacks, nonFanoutVars>>

\* the next turn of the loop: the element at the index is called, or the
\* index has reached the end of the list as it is now and the loop ends
FanoutStep ==
    /\ fanout.active
    /\ fanout' =
           IF fanout.index < Len(on_data_received_callbacks)
           THEN [fanout EXCEPT
                    !.index = @ + 1,
                    !.called = Append(@,
                        on_data_received_callbacks[fanout.index + 1])]
           ELSE [fanout EXCEPT !.active = FALSE]
    /\ UNCHANGED <<on_data_received_callbacks, nonFanoutVars>>

\* add_data_callback(callback) on another thread
AddDataCallback(callback) ==
    /\ Len(on_data_received_callbacks) < MaxRegistered
    /\ on_data_received_callbacks' =
           IF callback \in Elements(on_data_received_callbacks)
           THEN on_data_received_callbacks
           ELSE Append(on_data_received_callbacks, callback)
    /\ UNCHANGED <<fanout, nonFanoutVars>>

\* clear_callbacks() on another thread
ClearCallbacks ==
    /\ on_data_received_callbacks' = <<>>
    /\ UNCHANGED <<fanout, nonFanoutVars>>

FanoutNext ==
    \/ FanoutBegin
    \/ FanoutStep
    \/ \E callback \in FanoutCallbacks : AddDataCallback(callback)
    \/ ClearCallbacks

SpecFanout == FanoutInit /\ [][FanoutNext]_vars

\* how often the loop has called the callback
TimesCalled(callback) ==
    Cardinality({k \in 1..Len(fanout.called) : fanout.called[k] = callback})

\* C35 (the claim as stated): when the loop over the callbacks has ended,
\* every callback that was registered when it began has been called with
\* the event exactly once.
C35_EventDeliveredToSnapshot ==
    (~fanout.active /\ fanout.event > 0) =>
        \A callback \in fanout.registered : TimesCalled(callback) = 1

=============================================================================
